---- MODULE Spec2Model ----
(***************************************************************************)
(* Model of the terrain / grass core of webgpu-world-generator:            *)
(*   Heightfield (heightfield.ts), applyBrush (sculpt.ts),                 *)
(*   createGrassDensityMap and createGrassInstancedMesh (grass.ts).        *)
(*                                                                         *)
(* Numbers.  The program computes in IEEE doubles; the model computes the  *)
(* same expressions in fixed point:                                        *)
(*   - heights, brush coordinates, radius, intensity, falloff, masks,      *)
(*     densities and heightfield UVs are integers in units of 1/1000;      *)
(*   - angles are in milliradians, Sin/Cos return units of 1/10000;        *)
(*   - pseudoRandom returns units of 1/10000 (0..9999 stands for [0,1));   *)
(*   - a density-grid UV is kept in units of 1/(10000*width), so that the  *)
(*     cell arithmetic of the placer is exact;                             *)
(*   - NaN is one reserved integer, and the brush arithmetic propagates    *)
(*     it as IEEE arithmetic does.                                         *)
(* Divisions round towards minus infinity where the program rounds to the  *)
(* nearest double.                                                         *)
(***************************************************************************)
EXTENDS Integers, Sequences, FiniteSets, TLC

VARIABLES
  heightfield,   \* Heightfield: [width, height, data], data indexed 0..width*height-1
  brushCalls,    \* number of applyBrush calls made so far
  lastBrush,     \* arguments of the last applyBrush call (NoCall before the first)
  preBrush,      \* heightfield.data as it was when the last applyBrush was entered
  brushOutcome,  \* how the last applyBrush call ended: none, returned, threw
  lastAccess,    \* the last direct getHeight / setHeight call: arguments, result, outcome
  accessCalls,   \* number of direct getHeight / setHeight calls made so far
  windUniforms,  \* the module-level windUniforms of grass.ts: [uTime]
  densityParams, \* GrassDensityParams given to createGrassDensityMap
  grassDensity,  \* GrassDensityMap returned by the last createGrassDensityMap (NoDensity before)
  prevDensity,   \* GrassDensityMap returned by the call before the last
  buildCalls,    \* number of createGrassDensityMap calls made so far
  buildTimes,    \* windUniforms.uTime at the call before the last and at the last call
  instancingOptions, \* GrassInstancingOptions given to createGrassInstancedMesh
  pc,            \* where createGrassInstancedMesh stands: idle, patch, texel, instance, finish, threw
  loc,           \* its local variables (scaleFactor, py, px, y, x, i, count, patch sums, ...)
                 \* and the texels whose loop body it has entered, in order (visited)
  instanceIndex, \* its instanceIndex
  instances,     \* the instance slots written so far (slot k is instances[k + 1])
  patches,       \* its patches array
  meshResult,    \* what the last completed call returned (NoResult before)
  prevResult,    \* what the call before the last returned
  placeCalls,    \* number of completed createGrassInstancedMesh calls
  uiState,       \* the UiState of ui.ts (the fields main.ts reads, and windStrength)
  ctrlActive,    \* main.ts: ctrlActive
  isSculpting,   \* main.ts: isSculpting
  grassUpdatePending, \* main.ts: grassUpdatePending
  windPaused,    \* main.ts: windPauseStart !== null
  grassDensityId, \* allocation number of the Float32Array behind main.ts grassDensity
  grassMesh,     \* main.ts: grassMesh (NoMesh for null)
  grassLodContext, \* main.ts: grassLodContext (NoLod for null)
  scene,         \* the grass meshes in the three.js scene, by allocation number
  disposed,      \* the grass meshes whose geometry and material were disposed
  allocated,     \* number of buffers / meshes allocated so far by the rebuilds
  lastEvent,     \* the kind of the last event handled by main.ts
  appEvents      \* number of UI changes and sculpting picks handled so far

brushVars == <<brushCalls, lastBrush, preBrush, brushOutcome>>
buildVars == <<densityParams, grassDensity, prevDensity, buildCalls, buildTimes>>
placeVars == <<instancingOptions, pc, loc, instanceIndex, instances, patches,
               meshResult, prevResult, placeCalls>>
accessVars == <<lastAccess, accessCalls>>
appVars == <<uiState, ctrlActive, isSculpting, grassUpdatePending, windPaused, grassDensityId,
             grassMesh, grassLodContext, scene, disposed, allocated, lastEvent, appEvents>>
vars == <<heightfield, brushVars, accessVars, windUniforms, buildVars, placeVars, appVars>>

----------------------------------------------------------------------------
(* Bounds of the model *)

MaxBrushCalls == 2
MaxAccessCalls == 2
MaxAppEvents == 2
MaxBuildCalls == 2
MaxPlaceCalls == 2
MaxInstancesBound == 4

----------------------------------------------------------------------------
(* Math.* helpers *)

Max(a, b) == IF a >= b THEN a ELSE b
Min(a, b) == IF a <= b THEN a ELSE b
Abs(a) == IF a < 0 THEN -a ELSE a

\* Math.floor / Math.ceil of a value in 1/1000 units, as an integer
Floor(v) == v \div 1000
Ceil(v) == -((-v) \div 1000)

RECURSIVE SqrtIter(_, _, _)
SqrtIter(n, lo, hi) ==
  IF lo >= hi THEN lo
  ELSE LET mid == (lo + hi + 1) \div 2
       IN IF mid * mid <= n THEN SqrtIter(n, mid, hi) ELSE SqrtIter(n, lo, mid - 1)

\* Math.sqrt on integers (largest r with r*r <= n)
Sqrt(n) == SqrtIter(n, 0, Min(n, 46340))

\* sin on [0, pi], argument in milliradians, result in 1/10000 (Bhaskara's rational form)
SinHalf(x) ==
  LET p == x * (3142 - x)
  IN (160 * p) \div ((5 * 3142 * 3142 - 4 * p) \div 1000)

\* Math.sin / Math.cos, argument in milliradians, result in 1/10000
Sin(a) ==
  LET r == a % 6283
  IN IF r <= 3142 THEN SinHalf(r) ELSE -SinHalf(r - 3142)

Cos(a) == Sin(a + 1571)

\* the IEEE not-a-number, as 0/0 gives it
NaN == -1000000000

\* a + b on doubles
Plus(a, b) == IF a = NaN \/ b = NaN THEN NaN ELSE a + b

\* clamp of grass.ts
Clamp(value, min, max) == Max(min, Min(max, value))

\* a ?? b, an optional value being << >> (undefined) or <<value>>
Nullish(opt, default) == IF opt = << >> THEN default ELSE opt[1]

----------------------------------------------------------------------------
(* Heightfield *)

Index(hf, x, y) == y * hf.width + x

\* data[i] of a Float32Array as an optional: undefined outside 0 .. length-1
ArrayRead(data, i) == IF i \in DOMAIN data THEN <<data[i]>> ELSE << >>

\* data[i] = value on a Float32Array: a store outside 0 .. length-1 is dropped
ArrayWrite(data, i, value) ==
  IF i \in DOMAIN data THEN [data EXCEPT ![i] = value] ELSE data

\* getHeight where the index falls inside the buffer (a number is returned)
GetHeight(hf, x, y) == hf.data[Index(hf, x, y)]

SetHeight(hf, x, y, value) ==
  [hf EXCEPT !.data = ArrayWrite(@, Index(hf, x, y), value)]

NoAccess == [op |-> "none"]

\* h of fillWithSimpleNoise at texel (x, y); frequency and amplitude in 1/1000
SimpleNoise(x, y, amplitude, frequency) ==
  LET nx == x * frequency
      ny == y * frequency
      h == (Sin(nx) * 600 + Cos((ny * 8) \div 10) * 400
              + Sin((nx * 35 + ny * 15) \div 100) * 800) \div 10000
  IN (h * amplitude) \div 1000

\* new Heightfield(width, height, options)
NewHeightfield(width, height, useSimpleNoise, amplitude, frequency) ==
  [width |-> width, height |-> height,
   data |-> [k \in 0 .. (width * height - 1) |->
               IF useSimpleNoise
                 THEN SimpleNoise(k % width, k \div width, amplitude, frequency)
                 ELSE 0]]

\* constructor options: the default (flat) and a noise relief
HeightfieldOptions ==
  {[useSimpleNoise |-> FALSE, noiseAmplitude |-> 1000, noiseFrequency |-> 100],
   [useSimpleNoise |-> TRUE, noiseAmplitude |-> 1200, noiseFrequency |-> 800]}

----------------------------------------------------------------------------
(* applyBrush *)

NoCall == [mode |-> "none"]

BrushModes == {"raise", "lower", "smooth"}

\* the texels of the clipped bounding box, in the order the two for loops visit them
BoxTexels(minX, maxX, minY, maxY) ==
  IF maxX < minX \/ maxY < minY THEN << >>
  ELSE LET w == maxX - minX + 1
           n == w * (maxY - minY + 1)
       IN [k \in 1 .. n |-> <<minX + ((k - 1) % w), minY + ((k - 1) \div w)>>]

RECURSIVE KernelSum(_, _, _, _, _, _)
\* the kernel loop of getNeighborAverage from kernel cell k on: <<sum, count>>
KernelSum(data, width, height, x, y, k) ==
  IF k > 8 THEN <<0, 0>>
  ELSE LET nx == x + (k % 3) - 1
           ny == y + (k \div 3) - 1
           rest == KernelSum(data, width, height, x, y, k + 1)
       IN IF nx < 0 \/ ny < 0 \/ nx >= width \/ ny >= height
            THEN rest
            ELSE <<Plus(data[ny * width + nx], rest[1]), 1 + rest[2]>>

\* the sum divided by the nine cells of the kernel, sampled or not
GetNeighborAverageNine(data, width, height, x, y) ==
  LET acc == KernelSum(data, width, height, x, y, 0)
  IN IF acc[2] > 0 THEN (IF acc[1] = NaN THEN NaN ELSE acc[1] \div 9)
     ELSE data[y * width + x]

\* getNeighborAverage(data, width, height, x, y)
GetNeighborAverage(data, width, height, x, y) ==
  LET acc == KernelSum(data, width, height, x, y, 0)
  IN IF acc[2] > 0 THEN (IF acc[1] = NaN THEN NaN ELSE acc[1] \div acc[2])
     ELSE data[y * width + x]

Lerp(a, b, t) ==
  IF a = NaN \/ b = NaN \/ t = NaN THEN NaN ELSE a + ((b - a) * t) \div 1000

\* a slip in the distance: the y offset is left out
DistXOnly(dx, dy) == Sqrt(dx * dx)

\* dist of applyBrush: dx, dy and the result in 1/1000 texel
Dist(dx, dy) == Sqrt(dx * dx + dy * dy)

\* a slip in the falloff: the distance is not divided by the radius
FalloffNoRadius(dist, radius) == Max(0, 1000 - dist)

\* falloff of applyBrush; with radius = 0 the quotient is 0/0 = NaN at dist = 0 (and
\* Math.max(0, NaN) is NaN) and +Infinity elsewhere
Falloff(dist, radius) ==
  IF radius = 0 THEN (IF dist = 0 THEN NaN ELSE 0)
  ELSE Max(0, 1000 - (dist * 1000) \div radius)

\* a slip in the snapshot: smooth mode reads the live buffer too
SourceDataLive(mode, entryData, liveData) == liveData

\* sourceData of applyBrush: a copy made on entry in smooth mode, the live buffer otherwise
SourceData(mode, entryData, liveData) ==
  IF mode = "smooth" THEN entryData ELSE liveData

\* the body of the inner for loop of applyBrush for texel (x, y)
BrushTexel(hf, sourceData, x, y, centerX, centerY, config) ==
  LET dx == x * 1000 - centerX
      dy == y * 1000 - centerY
      dist == Dist(dx, dy)
  IN IF dist > config.radius THEN hf
     ELSE LET falloff == Falloff(dist, config.radius)
          IN IF config.mode = "smooth"
               THEN LET oldHeight == sourceData[y * hf.width + x]
                        neighborAverage ==
                          GetNeighborAverage(sourceData, hf.width, hf.height, x, y)
                        smoothed == Lerp(oldHeight, neighborAverage, falloff)
                    IN SetHeight(hf, x, y, smoothed)
               ELSE LET delta == IF falloff = NaN THEN NaN
                                 ELSE ((config.intensity * falloff) \div 1000)
                                        * (IF config.mode = "raise" THEN 1 ELSE -1)
                        nextHeight == Plus(GetHeight(hf, x, y), delta)
                    IN SetHeight(hf, x, y, nextHeight)

RECURSIVE BrushLoop(_, _, _, _, _, _, _)
\* the two for loops of applyBrush from the k-th texel of the visiting order on
BrushLoop(hf, entryData, texels, k, centerX, centerY, config) ==
  IF k > Len(texels) THEN hf
  ELSE BrushLoop(
         BrushTexel(hf, SourceData(config.mode, entryData, hf.data),
                    texels[k][1], texels[k][2], centerX, centerY, config),
         entryData, texels, k + 1, centerX, centerY, config)

\* the clipped bounding box of the brush: <<minX, maxX, minY, maxY>>
BrushBox(hf, centerX, centerY, radius) ==
  <<Max(0, Floor(centerX - radius)),
    Min(hf.width - 1, Ceil(centerX + radius)),
    Max(0, Floor(centerY - radius)),
    Min(hf.height - 1, Ceil(centerY + radius))>>

\* a brush on a grid that wraps around: the centre is taken modulo the grid size
ApplyBrushToWrapped(hf, centerX, centerY, config) ==
  LET wrappedX == centerX % (hf.width * 1000)
      wrappedY == centerY % (hf.height * 1000)
      box == BrushBox(hf, wrappedX, wrappedY, config.radius)
  IN BrushLoop(hf, hf.data, BoxTexels(box[1], box[2], box[3], box[4]), 1,
               wrappedX, wrappedY, config)

\* applyBrush(heightfield, centerX, centerY, config): the heightfield it leaves
ApplyBrushTo(hf, centerX, centerY, config) ==
  LET box == BrushBox(hf, centerX, centerY, config.radius)
  IN BrushLoop(hf, hf.data, BoxTexels(box[1], box[2], box[3], box[4]), 1,
               centerX, centerY, config)

\* the cells getNeighborAverage(data, width, height, x, y) reads: the kernel cells that
\* pass its range test
KernelCells(width, height, x, y) ==
  {<<x + kx, y + ky>> : kx \in -1 .. 1, ky \in -1 .. 1}
    \ {n \in {<<x + kx, y + ky>> : kx \in -1 .. 1, ky \in -1 .. 1} :
         n[1] < 0 \/ n[2] < 0 \/ n[1] >= width \/ n[2] >= height}

\* the cells applyBrush reads or writes: every texel of the clipped box within the radius
\* and, in smooth mode, the cells read around it
BrushCells(hf, centerX, centerY, config) ==
  LET box == BrushBox(hf, centerX, centerY, config.radius)
      texels == BoxTexels(box[1], box[2], box[3], box[4])
      within == {texels[k] : k \in {j \in DOMAIN texels :
                    Dist(texels[j][1] * 1000 - centerX, texels[j][2] * 1000 - centerY)
                      <= config.radius}}
  IN within \cup (IF config.mode = "smooth"
                   THEN UNION {KernelCells(hf.width, hf.height, t[1], t[2]) : t \in within}
                   ELSE {})

----------------------------------------------------------------------------
(* createGrassDensityMap *)

NoDensity == [width |-> 0, height |-> 0, data |-> << >>]

\* updateGrassWind(timeSeconds): the times the render loop passes
WindTimes == {0, 1, 2}

\* the neighbour to the right and below taken without the clamp to the last column and row
SampleCellsUnclamped(hf, u, v) ==
  LET x0 == Floor(Clamp(u, 0, 1000) * (hf.width - 1))
      y0 == Floor(Clamp(v, 0, 1000) * (hf.height - 1))
  IN {<<x0, y0>>, <<x0 + 1, y0>>, <<x0, y0 + 1>>, <<x0 + 1, y0 + 1>>}

\* the (x, y) arguments of the four getHeight calls of sampleHeight(heightfield, u, v)
SampleCells(hf, u, v) ==
  LET x0 == Floor(Clamp(u, 0, 1000) * (hf.width - 1))
      y0 == Floor(Clamp(v, 0, 1000) * (hf.height - 1))
      x1 == Min(hf.width - 1, x0 + 1)
      y1 == Min(hf.height - 1, y0 + 1)
  IN {<<x0, y0>>, <<x1, y0>>, <<x0, y1>>, <<x1, y1>>}

\* the getHeight arguments of estimateSlope(heightfield, u, v, du, dv)
SlopeCells(hf, u, v, du, dv) ==
  SampleCells(hf, u - du, v) \cup SampleCells(hf, u + du, v)
    \cup SampleCells(hf, u, v - dv) \cup SampleCells(hf, u, v + dv)

\* sampleHeight(heightfield, u, v): u, v and the result in 1/1000
SampleHeight(hf, u, v) ==
  LET x == Clamp(u, 0, 1000) * (hf.width - 1)
      y == Clamp(v, 0, 1000) * (hf.height - 1)
      x0 == Floor(x)
      y0 == Floor(y)
      x1 == Min(hf.width - 1, x0 + 1)
      y1 == Min(hf.height - 1, y0 + 1)
      tx == x - x0 * 1000
      ty == y - y0 * 1000
      h00 == GetHeight(hf, x0, y0)
      h10 == GetHeight(hf, x1, y0)
      h01 == GetHeight(hf, x0, y1)
      h11 == GetHeight(hf, x1, y1)
      hx0 == (h00 * (1000 - tx) + h10 * tx) \div 1000
      hx1 == (h01 * (1000 - tx) + h11 * tx) \div 1000
  IN (hx0 * (1000 - ty) + hx1 * ty) \div 1000

EstimateSlope(hf, u, v, du, dv) ==
  LET hL == SampleHeight(hf, u - du, v)
      hR == SampleHeight(hf, u + du, v)
      hD == SampleHeight(hf, u, v - dv)
      hU == SampleHeight(hf, u, v + dv)
      dx == (hR - hL) \div 2
      dy == (hU - hD) \div 2
  IN Sqrt(dx * dx + dy * dy)

\* a noise that reads the process-wide wind clock
PseudoNoise2DTimed(u, v) ==
  500 + (250 * Sin((u * 372 + v * 917) \div 10 + windUniforms.uTime * 1000)) \div 10000
      + (250 * Cos((u * 211 - v * 470) \div 10)) \div 10000

\* pseudoNoise2D(u, v): u, v and the result in 1/1000
PseudoNoise2D(u, v) ==
  500 + (250 * Sin((u * 372 + v * 917) \div 10)) \div 10000
      + (250 * Cos((u * 211 - v * 470) \div 10)) \div 10000

\* the zero-range branch yields what the division by zero would: no grass
HeightMaskNoFallback(h, minHeight, maxHeight) ==
  LET heightRange == maxHeight - minHeight
  IN IF heightRange > 0
       THEN LET t == ((h - minHeight) * 1000) \div heightRange
                tClamped == Max(0, Min(1000, t))
            IN Max(0, 1000 - Abs(tClamped - 500) * 2)
       ELSE 0

\* heightMask of createGrassDensityMap, in 1/1000
HeightMask(h, minHeight, maxHeight) ==
  LET heightRange == maxHeight - minHeight
  IN IF heightRange > 0
       THEN LET t == ((h - minHeight) * 1000) \div heightRange
                tClamped == Max(0, Min(1000, t))
            IN Max(0, 1000 - Abs(tClamped - 500) * 2)
       ELSE 1000

\* a slope mask that fades twice as slowly: half of the grass is left at ratio 1
SlopeMaskLate(slope, paramMaxSlope) ==
  LET slopeT == IF paramMaxSlope > 0 THEN (slope * 1000) \div paramMaxSlope
                ELSE Min(slope, 1000) * 100000
      slopeClamped == Max(0, Min(1000, slopeT))
      slopeMask == 1000 - (Max(0, slopeClamped - 600) * 1000) \div 800
  IN Max(0, Min(1000, slopeMask))

\* slopeMask of createGrassDensityMap, in 1/1000; params.maxSlope below 1e-5 counts as 1e-5
SlopeMask(slope, paramMaxSlope) ==
  LET slopeT == IF paramMaxSlope > 0 THEN (slope * 1000) \div paramMaxSlope
                ELSE Min(slope, 1000) * 100000
      slopeClamped == Max(0, Min(1000, slopeT))
      slopeMask == 1000 - (Max(0, slopeClamped - 600) * 1000) \div 400
  IN Max(0, Min(1000, slopeMask))

\* the noise taken signed, in [-0.7, 0.7], so that the masked term can be negative
RawDensitySigned(mask, u, v) ==
  IF mask <= 0 THEN 0
  ELSE LET n == (PseudoNoise2D(u, v) * 14) \div 10 - 700
           microNoise ==
             ((PseudoNoise2D((u * 713) \div 100 + 13700, (v * 917) \div 100 + 3100) - 500) * 2)
               \div 10
           raw == ((n + microNoise) * mask) \div 1000000
       IN 350 + (650 * raw) \div 1000

\* the density before the final clamp to [0,1]: mask in 1/1000000, result in 1/1000
RawDensity(mask, u, v) ==
  IF mask <= 0 THEN 0
  ELSE LET n == (PseudoNoise2D(u, v) * 7) \div 10 + 300
           microNoise ==
             ((PseudoNoise2D((u * 713) \div 100 + 13700, (v * 917) \div 100 + 3100) - 500) * 2)
               \div 10
           raw == ((n + microNoise) * mask) \div 1000000
       IN 350 + (650 * raw) \div 1000

\* the final clamp is left out
DensityValueUnclamped(mask, u, v) == RawDensity(mask, u, v)

\* density of one texel from its mask (1/1000000) and UV, in 1/1000
DensityValue(mask, u, v) == Max(0, Min(1000, RawDensity(mask, u, v)))

\* u (or v) of output texel x of a row of the given width, in 1/1000
TexelU(x, width) == IF width > 1 THEN (x * 1000) \div (width - 1) ELSE 500

\* sampleStepU (or V) for a heightfield dimension, in 1/1000
SampleStep(dim) == IF dim > 1 THEN 1000 \div (dim - 1) ELSE 0

\* slope at output texel (x, y) of a width x height density grid
TexelSlope(hf, x, y, width, height) ==
  EstimateSlope(hf, TexelU(x, width), TexelU(y, height),
                SampleStep(hf.width), SampleStep(hf.height))

\* the body of the two for loops of createGrassDensityMap for output texel (x, y)
DensityTexel(hf, params, x, y, width, height) ==
  LET u == TexelU(x, width)
      v == TexelU(y, height)
      h == SampleHeight(hf, u, v)
      slope == TexelSlope(hf, x, y, width, height)
      heightMask == HeightMask(h, params.minHeight, params.maxHeight)
      slopeMask == SlopeMask(slope, params.maxSlope)
      mask == heightMask * slopeMask
  IN DensityValue(mask, u, v)

\* createGrassDensityMap(heightfield, params): the map it returns
CreateGrassDensityMapOf(hf, params) ==
  LET width == Max(1, Nullish(params.resolution, hf.width))
      height == Max(1, Nullish(params.resolution, hf.height))
  IN [width |-> width, height |-> height,
      data |-> [k \in 0 .. (width * height - 1) |->
                  DensityTexel(hf, params, k % width, k \div width, width, height)]]

\* the output written into the heightfield's own buffer when the sizes agree
CreateGrassDensityMapInPlace(hf, params) ==
  LET map == CreateGrassDensityMapOf(hf, params)
  IN [heightfield |-> IF map.width = hf.width /\ map.height = hf.height
                        THEN [hf EXCEPT !.data = map.data] ELSE hf,
      result |-> map]

\* what a createGrassDensityMap call leaves: the heightfield it was given, as it is after
\* the call, and the map it returns; the only stores of the function go to the
\* Float32Array it allocates itself
CreateGrassDensityMapCall(hf, params) ==
  [heightfield |-> hf, result |-> CreateGrassDensityMapOf(hf, params)]

\* the getHeight arguments of a createGrassDensityMap(heightfield, params) call
BuildCells(hf, params) ==
  LET width == Max(1, Nullish(params.resolution, hf.width))
      height == Max(1, Nullish(params.resolution, hf.height))
  IN UNION {SampleCells(hf, TexelU(x, width), TexelU(y, height))
              \cup SlopeCells(hf, TexelU(x, width), TexelU(y, height),
                              SampleStep(hf.width), SampleStep(hf.height)) :
            x \in 0 .. (width - 1), y \in 0 .. (height - 1)}

----------------------------------------------------------------------------
(* createGrassInstancedMesh *)

NoResult == [count |-> 0, instances |-> << >>, patches |-> << >>, maxInstances |-> 0]

NoLocals == [scaleFactor |-> <<1, 1>>, visited |-> << >>]

\* Math.random(): the values a call may return, in 1/10000
RandomValues == {0, 5000}

CeilDiv(a, b) == -((-a) \div b)

\* a capacity read with || in place of ??: a given 0 falls back to the default
MaxInstancesFalsy(options) ==
  IF options.maxInstances = << >> \/ options.maxInstances[1] = 0 THEN 50000
  ELSE options.maxInstances[1]

\* a capacity that forgets the option
MaxInstancesDefaultOnly(options) == 50000

\* maxInstances of createGrassInstancedMesh
MaxInstancesOf(options) == Nullish(options.maxInstances, 50000)

\* pseudoRandom(x, y, seed): seed and the result in 1/10000
PseudoRandom(x, y, seed) ==
  LET s == Sin(x * 12990 + y * 78233 + seed * 4376)
  IN (s * 43758 + (s * 5453) \div 10000) % 10000

RECURSIVE ExpectedFrom(_, _)
\* the capacity pre-pass from texel k on: sum of density*maxPerTexel, in 1/1000
ExpectedFrom(density, k) ==
  IF k >= density.width * density.height THEN 0
  ELSE (IF density.data[k] <= 0 THEN 0 ELSE density.data[k] * 6)
         + ExpectedFrom(density, k + 1)

TotalExpected(density) == ExpectedFrom(density, 0)

\* scaleFactor as the fraction <<numerator, denominator>>
ScaleFactor(density, maxInstances) ==
  LET totalExpected == TotalExpected(density)
  IN IF totalExpected > maxInstances * 1000 /\ totalExpected > 0
       THEN <<maxInstances * 1000, totalExpected>>
       ELSE <<1, 1>>

\* the count rounded down, the hash left out
RoundedCountFloor(densityValue, scaleFactor, baseRand) ==
  LET expected == densityValue * 6
      scaledExpected == (expected * scaleFactor[1]) \div scaleFactor[2]
  IN scaledExpected \div 1000

\* count of one texel before the capacity clamp
RoundedCount(densityValue, scaleFactor, baseRand) ==
  LET expected == densityValue * 6
      scaledExpected == (expected * scaleFactor[1]) \div scaleFactor[2]
      baseCount == scaledExpected \div 1000
      fractional == scaledExpected - baseCount * 1000
  IN baseCount + (IF baseRand * 1000 < fractional * 10000 THEN 1 ELSE 0)

\* count of one texel: rounded, then clamped to what is left of the capacity
TexelCount(densityValue, scaleFactor, baseRand, maxInstances, index) ==
  LET count == RoundedCount(densityValue, scaleFactor, baseRand)
      remaining == maxInstances - index
  IN IF count > remaining THEN remaining ELSE count

\* patch sizes rounded down instead of up
PatchRectFloor(density, px, py) ==
  LET texelsPerPatchX == density.width \div 16
      texelsPerPatchY == density.height \div 16
      xStart == px * texelsPerPatchX
      yStart == py * texelsPerPatchY
  IN [xStart |-> xStart, xEnd |-> Min(density.width, xStart + texelsPerPatchX),
      yStart |-> yStart, yEnd |-> Min(density.height, yStart + texelsPerPatchY)]

\* the texel rectangle of patch (px, py): [xStart, xEnd, yStart, yEnd]
PatchRect(density, px, py) ==
  LET texelsPerPatchX == CeilDiv(density.width, 16)
      texelsPerPatchY == CeilDiv(density.height, 16)
      xStart == px * texelsPerPatchX
      yStart == py * texelsPerPatchY
  IN [xStart |-> xStart, xEnd |-> Min(density.width, xStart + texelsPerPatchX),
      yStart |-> yStart, yEnd |-> Min(density.height, yStart + texelsPerPatchY)]

\* a jitter of twice the cell
JitterWide(rand, cellSize) == ((rand - 5000) * 2 * cellSize) \div 10000

\* jitterU / jitterV: (rand - 0.5) * cellSize
Jitter(rand, cellSize) == ((rand - 5000) * cellSize) \div 10000

\* the seeds given to pseudoRandom for candidate i, by the value they feed, in 1/10000
AttributeSeeds(i, baseRand) ==
  [localRand |-> i * 13700 + baseRand, jitterU |-> i * 21100, jitterV |-> i * 37300 + 10000,
   tiltX |-> i * 51300, tiltZ |-> i * 79100, variation |-> i * 93100]

\* the instance written for candidate i of texel (x, y); sampleU / sampleV are kept in
\* 1/(10000*density.width) and 1/(10000*density.height), positions in 1/1000
InstanceAt(hf, density, heightScale, x, y, i, baseRand, stiffness) ==
  LET seeds == AttributeSeeds(i, baseRand)
      localRand == PseudoRandom(x, y, seeds.localRand)
      cellUSize == 10000
      cellVSize == 10000
      baseU == x * 10000 + 5000
      baseV == y * 10000 + 5000
      jitterU == Jitter(PseudoRandom(x, y, seeds.jitterU), cellUSize)
      jitterV == Jitter(PseudoRandom(x, y, seeds.jitterV), cellVSize)
      sampleU == Clamp(baseU + jitterU, 0, 10000 * density.width)
      sampleV == Clamp(baseV + jitterV, 0, 10000 * density.height)
      u == sampleU \div (10 * density.width)
      v == sampleV \div (10 * density.height)
      worldX == (u - 500) * (hf.width - 1)
      worldZ == (v - 500) * (hf.height - 1)
      height == (SampleHeight(hf, u, v) * heightScale) \div 1000
      yaw == (localRand * 6283) \div 10000
      tiltX == ((PseudoRandom(x, y, seeds.tiltX) - 5000) * 2) \div 10
      tiltZ == ((PseudoRandom(x, y, seeds.tiltZ) - 5000) * 2) \div 10
      variation == PseudoRandom(x, y, seeds.variation)
      scaleY == 8000 + (localRand * 6) \div 10
      scaleX == 4000 + (variation * 4) \div 10
  IN [texel |-> <<x, y>>, candidate |-> i, sampleU |-> sampleU, sampleV |-> sampleV,
      position |-> <<worldX, height, worldZ>>,
      rotation |-> <<tiltX, yaw, tiltZ>>,
      scale |-> <<scaleX, scaleY, 10000>>,
      phaseOffset |-> (baseRand * 6283) \div 10000,
      stiffness |-> stiffness,
      colorFactor |-> variation,
      heightFactor |-> variation]

\* the condition under which a finished patch is pushed
PatchKept(patchInstanceCount, sampleCount) == patchInstanceCount > 0 /\ sampleCount > 0

\* the patch start read after the texel loops instead of before them
PatchOfStartAtEnd(hf, density, l, index) ==
  LET r == PatchRect(density, l.px, l.py)
      patchWidthWorld == (((r.xEnd - r.xStart) * 1000) \div Max(1, density.width)) * (hf.width - 1)
      patchHeightWorld == (((r.yEnd - r.yStart) * 1000) \div Max(1, density.height)) * (hf.height - 1)
  IN [center |-> <<l.sumX \div l.sampleCount, l.sumY \div l.sampleCount, l.sumZ \div l.sampleCount>>,
      radius |-> Sqrt((patchWidthWorld * patchWidthWorld + patchHeightWorld * patchHeightWorld) \div 4),
      startInstance |-> index,
      instanceCount |-> index - l.patchStart]

\* the patch count taken from the running index, the patch start not subtracted
PatchOfCumulative(hf, density, l, index) ==
  LET r == PatchRect(density, l.px, l.py)
      patchWidthWorld == (((r.xEnd - r.xStart) * 1000) \div Max(1, density.width)) * (hf.width - 1)
      patchHeightWorld == (((r.yEnd - r.yStart) * 1000) \div Max(1, density.height)) * (hf.height - 1)
  IN [center |-> <<l.sumX \div l.sampleCount, l.sumY \div l.sampleCount, l.sumZ \div l.sampleCount>>,
      radius |-> Sqrt((patchWidthWorld * patchWidthWorld + patchHeightWorld * patchHeightWorld) \div 4),
      startInstance |-> l.patchStart,
      instanceCount |-> index]

\* the position sums taken as the centre, not divided by the sample count
PatchOfUnaveraged(hf, density, l, index) ==
  LET r == PatchRect(density, l.px, l.py)
      patchWidthWorld == (((r.xEnd - r.xStart) * 1000) \div Max(1, density.width)) * (hf.width - 1)
      patchHeightWorld == (((r.yEnd - r.yStart) * 1000) \div Max(1, density.height)) * (hf.height - 1)
  IN [center |-> <<l.sumX, l.sumY, l.sumZ>>,
      radius |-> Sqrt((patchWidthWorld * patchWidthWorld + patchHeightWorld * patchHeightWorld) \div 4),
      startInstance |-> l.patchStart,
      instanceCount |-> index - l.patchStart]

\* the patch pushed when the texel loops of patch (px, py) are over
PatchOf(hf, density, l, index) ==
  LET r == PatchRect(density, l.px, l.py)
      patchWidthWorld == (((r.xEnd - r.xStart) * 1000) \div Max(1, density.width)) * (hf.width - 1)
      patchHeightWorld == (((r.yEnd - r.yStart) * 1000) \div Max(1, density.height)) * (hf.height - 1)
  IN [center |-> <<l.sumX \div l.sampleCount, l.sumY \div l.sampleCount, l.sumZ \div l.sampleCount>>,
      radius |-> Sqrt((patchWidthWorld * patchWidthWorld + patchHeightWorld * patchHeightWorld) \div 4),
      startInstance |-> l.patchStart,
      instanceCount |-> index - l.patchStart]

\* the texel loops of patch k (= py*16 + px) run their body at least once
PatchHasWork(density, maxInstances, index, k) ==
  LET r == PatchRect(density, k % 16, k \div 16)
  IN r.yStart < r.yEnd /\ r.xStart < r.xEnd /\ index < maxInstances

\* the first patch from k on whose texel loops run their body, 256 when there is none
NextPatch(density, maxInstances, index, k) ==
  LET ahead == {j \in k .. (16 * 16 - 1) : PatchHasWork(density, maxInstances, index, j)}
  IN IF ahead = {} THEN 16 * 16
     ELSE CHOOSE j \in ahead : \A j2 \in ahead : j <= j2

\* the (x, y) of the density.data reads of createGrassInstancedMesh: the texels of the
\* 16x16 patch rectangles
PlaceDensityCells(density) ==
  UNION {LET r == PatchRect(density, k % 16, k \div 16)
         IN (r.xStart .. (r.xEnd - 1)) \X (r.yStart .. (r.yEnd - 1)) : k \in 0 .. (16 * 16 - 1)}

\* the getHeight arguments of createGrassInstancedMesh: sampleHeight at the jittered UV of
\* every candidate a texel can have (at most maxPerTexel)
PlaceHeightCells(hf, density) ==
  UNION {LET inst == InstanceAt(hf, density, 2500, c[1], c[2], i,
                                PseudoRandom(c[1], c[2], 3700), 0)
         IN SampleCells(hf, inst.sampleU \div (10 * density.width),
                        inst.sampleV \div (10 * density.height)) :
         c \in PlaceDensityCells(density), i \in 0 .. 5}

\* no createGrassInstancedMesh call has been made
PlaceIdle ==
  /\ instancingOptions = [heightScale |-> 2500, maxInstances |-> << >>]
  /\ pc = "idle"
  /\ loc = NoLocals
  /\ instanceIndex = 0
  /\ instances = << >>
  /\ patches = << >>
  /\ meshResult = NoResult
  /\ prevResult = NoResult
  /\ placeCalls = 0

----------------------------------------------------------------------------
(* main.ts: module state *)

NoMesh == [id |-> 0]

NoLod == [mesh |-> 0]

\* setupUI: the state built from the defaults of getNumber
DefaultUiState ==
  [brushRadius |-> 10000, brushIntensity |-> 120, brushMode |-> "raise",
   heightLow |-> -1000, heightHigh |-> 4000, slopeThreshold |-> 350,
   windStrength |-> 250, maxGrassInstances |-> 400000]

\* the module state of main.ts where the application is not running
AppIdle ==
  /\ uiState = DefaultUiState
  /\ ctrlActive = FALSE
  /\ isSculpting = FALSE
  /\ grassUpdatePending = FALSE
  /\ windPaused = FALSE
  /\ grassDensityId = 0
  /\ grassMesh = NoMesh
  /\ grassLodContext = NoLod
  /\ scene = {}
  /\ disposed = {}
  /\ allocated = 0
  /\ lastEvent = "none"
  /\ appEvents = 0

----------------------------------------------------------------------------
(* Density building: a heightfield and parameters are given, the map is built (and rebuilt)
   while the render loop advances the wind clock *)

BuildGridSizes == {<<1, 3>>, <<3, 2>>, <<6, 5>>}

BuildHeightfields ==
  {NewHeightfield(s[1], s[2], o.useSimpleNoise, o.noiseAmplitude, o.noiseFrequency) :
     s \in BuildGridSizes, o \in HeightfieldOptions}

DensityParamSets ==
  [minHeight : {-1000, 0}, maxHeight : {0, 4000}, maxSlope : {0, 350, 2000},
   resolution : {<< >>, <<1>>, <<3>>, <<0>>, <<-2>>}]

BuildIdle ==
  /\ densityParams = [minHeight |-> -1000, maxHeight |-> 4000, maxSlope |-> 350,
                      resolution |-> << >>]
  /\ grassDensity = NoDensity
  /\ prevDensity = NoDensity
  /\ buildCalls = 0
  /\ buildTimes = <<0, 0>>

InitBuild ==
  /\ heightfield \in BuildHeightfields
  /\ brushCalls = 0
  /\ lastBrush = NoCall
  /\ preBrush = heightfield.data
  /\ brushOutcome = "none"
  /\ lastAccess = NoAccess
  /\ accessCalls = 0
  /\ AppIdle
  /\ windUniforms = [uTime |-> 0]
  /\ densityParams \in DensityParamSets
  /\ grassDensity = NoDensity
  /\ prevDensity = NoDensity
  /\ buildCalls = 0
  /\ buildTimes = <<0, 0>>
  /\ PlaceIdle

CreateGrassDensityMap ==
  /\ buildCalls < MaxBuildCalls
  /\ \E call \in {CreateGrassDensityMapCall(heightfield, densityParams)} :
       /\ heightfield' = call.heightfield
       /\ grassDensity' = call.result
  /\ prevDensity' = grassDensity
  /\ buildCalls' = buildCalls + 1
  /\ buildTimes' = <<buildTimes[2], windUniforms.uTime>>
  /\ UNCHANGED <<brushVars, accessVars, windUniforms, densityParams, placeVars, appVars>>

UpdateGrassWind ==
  /\ \E timeSeconds \in WindTimes :
       /\ timeSeconds > windUniforms.uTime
       /\ windUniforms' = [uTime |-> timeSeconds]
  /\ UNCHANGED <<heightfield, brushVars, accessVars, buildVars, placeVars, appVars>>

NextBuild == CreateGrassDensityMap \/ UpdateGrassWind

SpecBuild == InitBuild /\ [][NextBuild]_vars

----------------------------------------------------------------------------
(* Sculpting: a heightfield is constructed, then brushed *)

\* the grids sculpted: a flat 4x4 one and a 3x2 one with the noise relief
InitialHeightfields ==
  {NewHeightfield(4, 4, FALSE, 1000, 100), NewHeightfield(3, 2, TRUE, 1200, 800)}

\* brush centres: on a texel, on the grid corner, between texels, away from the grid
BrushCenters == {<<1000, 1000>>, <<0, 0>>, <<1500, 500>>, <<-3000, -3000>>}

BrushRadii == {1000, 1500}

BrushIntensities == {1000, 120}

\* radii no brush should be given: zero, and negative ones smaller and larger than a texel
NonPositiveRadii == {0, -300, -1000}

InitBrush ==
  /\ heightfield \in InitialHeightfields
  /\ brushCalls = 0
  /\ lastBrush = NoCall
  /\ preBrush = heightfield.data
  /\ brushOutcome = "none"
  /\ lastAccess = NoAccess
  /\ accessCalls = 0
  /\ AppIdle
  /\ windUniforms = [uTime |-> 0]
  /\ BuildIdle
  /\ PlaceIdle

\* one applyBrush call with the given arguments; the function has no throw statement and
\* no operation of it can raise, so it always returns
ApplyBrushWith(c, radius, intensity, mode) ==
  LET config == [radius |-> radius, intensity |-> intensity, mode |-> mode]
  IN /\ heightfield' = ApplyBrushTo(heightfield, c[1], c[2], config)
     /\ lastBrush' = [centerX |-> c[1], centerY |-> c[2], radius |-> radius,
                      intensity |-> intensity, mode |-> mode]
     /\ preBrush' = heightfield.data
     /\ brushOutcome' = "returned"
     /\ brushCalls' = brushCalls + 1

ApplyBrush ==
  /\ brushCalls < MaxBrushCalls
  /\ \E c \in BrushCenters, radius \in BrushRadii,
        intensity \in BrushIntensities, mode \in BrushModes :
       ApplyBrushWith(c, radius, intensity, mode)
  /\ UNCHANGED <<accessVars, windUniforms, buildVars, placeVars, appVars>>

NextBrush == ApplyBrush

SpecBrush == InitBrush /\ [][NextBrush]_vars

\* Direct use of the public accessors of Heightfield, in and out of the grid

\* x (or y) arguments: one below the range, its two ends, one above
AccessCoords(dim) == {-1, 0, dim - 1, dim}

AccessValues == {7000}

\* heightfield.getHeight(x, y): index() and the buffer read, nothing else
HeightfieldGetHeight ==
  /\ accessCalls < MaxAccessCalls
  /\ \E x \in AccessCoords(heightfield.width), y \in AccessCoords(heightfield.height) :
       lastAccess' = [op |-> "getHeight", x |-> x, y |-> y, value |-> 0,
                      result |-> ArrayRead(heightfield.data, Index(heightfield, x, y)),
                      outcome |-> "returned", before |-> heightfield.data]
  /\ accessCalls' = accessCalls + 1
  /\ UNCHANGED <<heightfield, brushVars, windUniforms, buildVars, placeVars, appVars>>

\* heightfield.setHeight(x, y, value): index() and the buffer store, nothing else
HeightfieldSetHeight ==
  /\ accessCalls < MaxAccessCalls
  /\ \E x \in AccessCoords(heightfield.width), y \in AccessCoords(heightfield.height),
        value \in AccessValues :
       /\ heightfield' = SetHeight(heightfield, x, y, value)
       /\ lastAccess' = [op |-> "setHeight", x |-> x, y |-> y, value |-> value,
                         result |-> << >>, outcome |-> "returned",
                         before |-> heightfield.data]
  /\ accessCalls' = accessCalls + 1
  /\ UNCHANGED <<brushVars, windUniforms, buildVars, placeVars, appVars>>

NextAccess == HeightfieldGetHeight \/ HeightfieldSetHeight

SpecAccess == InitBrush /\ [][NextAccess]_vars

\* applyBrush called with a radius that is not positive
ApplyBrushNonPositive ==
  /\ brushCalls < MaxBrushCalls
  /\ \E c \in BrushCenters, radius \in NonPositiveRadii,
        intensity \in BrushIntensities, mode \in BrushModes :
       ApplyBrushWith(c, radius, intensity, mode)
  /\ UNCHANGED <<accessVars, windUniforms, buildVars, placeVars, appVars>>

NextRadius == ApplyBrushNonPositive

SpecRadius == InitBrush /\ [][NextRadius]_vars

----------------------------------------------------------------------------
(* Grid accesses: the sampler, the brush, the density build and the placement are run on
   small grids, grids of one row or column included, and the cells each call touches are
   kept in lastAccess *)

IndexGridSizes == {<<1, 1>>, <<1, 3>>, <<3, 2>>}

\* u and v given to sampleHeight: below 0, the two ends, inside, above 1
SampleUVs == {-500, 0, 400, 1000, 1700}

\* brush centres: on the corner texel, between texels near the far corner, off the grid
IndexBrushCenters == {<<0, 0>>, <<1500, 500>>, <<-500, 2500>>}

IndexBrushRadii == {700, 1500}

InitIndex ==
  /\ heightfield \in {NewHeightfield(g[1], g[2], TRUE, 1200, 800) : g \in IndexGridSizes}
  /\ brushCalls = 0
  /\ lastBrush = NoCall
  /\ preBrush = heightfield.data
  /\ brushOutcome = "none"
  /\ lastAccess = NoAccess
  /\ accessCalls = 0
  /\ AppIdle
  /\ windUniforms = [uTime |-> 0]
  /\ BuildIdle
  /\ PlaceIdle

\* sampleHeight(heightfield, u, v)
SampleHeightIndexed ==
  /\ accessCalls < MaxAccessCalls
  /\ \E u \in SampleUVs, v \in SampleUVs :
       lastAccess' = [op |-> "sampleHeight", u |-> u, v |-> v,
                      cells |-> SampleCells(heightfield, u, v), densityCells |-> {}]
  /\ accessCalls' = accessCalls + 1
  /\ UNCHANGED <<heightfield, brushVars, windUniforms, buildVars, placeVars, appVars>>

\* applyBrush(heightfield, centerX, centerY, config)
ApplyBrushIndexed ==
  /\ accessCalls < MaxAccessCalls
  /\ \E c \in IndexBrushCenters, radius \in IndexBrushRadii, mode \in {"raise", "smooth"} :
       /\ ApplyBrushWith(c, radius, 120, mode)
       /\ lastAccess' = [op |-> "applyBrush", u |-> c[1], v |-> c[2],
                         cells |-> BrushCells(heightfield, c[1], c[2],
                                              [radius |-> radius, intensity |-> 120,
                                               mode |-> mode]),
                         densityCells |-> {}]
  /\ accessCalls' = accessCalls + 1
  /\ UNCHANGED <<windUniforms, buildVars, placeVars, appVars>>

\* createGrassDensityMap(heightfield, params), at the heightfield's resolution or at 4
CreateGrassDensityMapIndexed ==
  /\ accessCalls < MaxAccessCalls
  /\ \E resolution \in {<< >>, <<4>>} :
       \E params \in {[densityParams EXCEPT !.resolution = resolution]} :
         /\ densityParams' = params
         /\ grassDensity' = CreateGrassDensityMapOf(heightfield, params)
         /\ lastAccess' = [op |-> "build", u |-> 0, v |-> 0,
                           cells |-> BuildCells(heightfield, params), densityCells |-> {}]
  /\ prevDensity' = grassDensity
  /\ buildCalls' = buildCalls + 1
  /\ buildTimes' = <<buildTimes[2], windUniforms.uTime>>
  /\ accessCalls' = accessCalls + 1
  /\ UNCHANGED <<heightfield, brushVars, windUniforms, placeVars, appVars>>

\* createGrassInstancedMesh(heightfield, density, options) on the map built last
CreateGrassInstancedMeshIndexed ==
  /\ accessCalls < MaxAccessCalls
  /\ grassDensity # NoDensity
  /\ lastAccess' = [op |-> "place", u |-> 0, v |-> 0,
                    cells |-> PlaceHeightCells(heightfield, grassDensity),
                    densityCells |-> PlaceDensityCells(grassDensity)]
  /\ accessCalls' = accessCalls + 1
  /\ UNCHANGED <<heightfield, brushVars, windUniforms, buildVars, placeVars, appVars>>

NextIndex ==
  \/ SampleHeightIndexed
  \/ ApplyBrushIndexed
  \/ CreateGrassDensityMapIndexed
  \/ CreateGrassInstancedMeshIndexed

SpecIndex == InitIndex /\ [][NextIndex]_vars

----------------------------------------------------------------------------
(* Placement: createGrassInstancedMesh is called (and called again) on a heightfield, a
   density map and options; it advances loop by loop *)

DensityLevels == {0, 350, 1000}

\* a map of the given size with grass only at the texels named by tufts (index :> level)
SparseField(width, height, tufts) ==
  [width |-> width, height |-> height,
   data |-> [k \in 0 .. (width * height - 1) |->
               IF k \in DOMAIN tufts THEN tufts[k] ELSE 0]]

\* sparse maps of sizes at, just above and well above the 16 patches of a row
SparseFields ==
  {SparseField(16, 1, 15 :> 350),
   SparseField(17, 2, 16 :> 350),
   SparseField(33, 1, 0 :> 350 @@ 1 :> 350 @@ 32 :> 1000)}

\* density maps: every small map over the levels, a six-texel row in two halves, a row
\* wider than the patch grid whose patches hold two texels each, and the sparse maps
DensityFields ==
  UNION {[width : {s[1]}, height : {s[2]},
          data : [0 .. (s[1] * s[2] - 1) -> DensityLevels]] : s \in {<<1, 1>>, <<2, 1>>, <<2, 2>>}}
  \cup {[width |-> 6, height |-> 1,
         data |-> [k \in 0 .. 5 |-> IF k < 3 THEN a ELSE b]] : a, b \in DensityLevels}
  \cup {[width |-> 18, height |-> 1,
         data |-> [k \in 0 .. 17 |-> IF k % 3 = 0 THEN a ELSE b]] : a, b \in DensityLevels}
  \cup SparseFields

\* everything but the inputs of createGrassInstancedMesh, before its first call
PlaceStart ==
  /\ heightfield = NewHeightfield(3, 2, TRUE, 1200, 800)
  /\ brushCalls = 0
  /\ lastBrush = NoCall
  /\ preBrush = heightfield.data
  /\ brushOutcome = "none"
  /\ lastAccess = NoAccess
  /\ accessCalls = 0
  /\ AppIdle
  /\ windUniforms = [uTime |-> 0]
  /\ densityParams = [minHeight |-> -1000, maxHeight |-> 4000, maxSlope |-> 350,
                      resolution |-> << >>]
  /\ prevDensity = NoDensity
  /\ buildCalls = 0
  /\ buildTimes = <<0, 0>>
  /\ pc = "idle"
  /\ loc = NoLocals
  /\ instanceIndex = 0
  /\ instances = << >>
  /\ patches = << >>
  /\ meshResult = NoResult
  /\ prevResult = NoResult
  /\ placeCalls = 0

InitPlace ==
  /\ PlaceStart
  /\ grassDensity \in DensityFields
  /\ instancingOptions \in [heightScale : {2500}, maxInstances : {<<n>> : n \in -1 .. MaxInstancesBound}]

\* the inputs of the repeated calls: one- and two-texel maps, room for one or two instances
InitRepeat ==
  /\ PlaceStart
  /\ grassDensity \in {d \in DensityFields : d.width <= 2 /\ d.height = 1}
  /\ instancingOptions \in [heightScale : {2500}, maxInstances : {<<1>>, <<2>>}]

\* lines 463-610: capacity pre-pass, allocation of the per-instance arrays, loop set-up;
\* a negative array length makes the allocation throw
PlaceEnter ==
  /\ pc = "idle"
  /\ placeCalls < MaxPlaceCalls
  /\ LET maxInstances == MaxInstancesOf(instancingOptions)
     IN IF maxInstances < 0
          THEN /\ pc' = "threw"
               /\ UNCHANGED <<loc, instanceIndex, instances, patches, appVars>>
          ELSE /\ pc' = "patch"
               /\ loc' = [scaleFactor |-> ScaleFactor(grassDensity, maxInstances),
                          py |-> 0, px |-> 0, y |-> 0, x |-> 0, i |-> 0, count |-> 0,
                          baseRand |-> 0, patchStart |-> 0,
                          sumX |-> 0, sumY |-> 0, sumZ |-> 0, sampleCount |-> 0,
                          visited |-> << >>]
               /\ instanceIndex' = 0
               /\ instances' = << >>
               /\ patches' = << >>
  /\ UNCHANGED <<heightfield, brushVars, accessVars, windUniforms, buildVars,
                 instancingOptions, meshResult, prevResult, placeCalls, appVars>>

\* the py / px loop headers, up to the next patch whose texel loops run (patches whose
\* loops run no body push nothing and are passed over), or to the end of both loops
PatchLoop ==
  /\ pc = "patch"
  /\ \E k \in {NextPatch(grassDensity, MaxInstancesOf(instancingOptions), instanceIndex,
                          loc.py * 16 + loc.px)} :
       IF k >= 16 * 16
         THEN /\ pc' = "finish"
              /\ UNCHANGED loc
         ELSE \E r \in {PatchRect(grassDensity, k % 16, k \div 16)} :
                /\ pc' = "texel"
                /\ loc' = [loc EXCEPT !.py = k \div 16, !.px = k % 16,
                                      !.patchStart = instanceIndex,
                                      !.sumX = 0, !.sumY = 0, !.sumZ = 0, !.sampleCount = 0,
                                      !.y = r.yStart, !.x = r.xStart]
  /\ UNCHANGED <<heightfield, brushVars, accessVars, windUniforms, buildVars, instancingOptions,
                 instanceIndex, instances, patches, meshResult, prevResult, placeCalls, appVars>>

\* one test of the y / x loop conditions and, when both hold, the texel body up to the
\* candidate loop; when the y loop ends, the patch is closed (lines 699-721)
TexelLoop ==
  /\ pc = "texel"
  /\ LET maxInstances == MaxInstancesOf(instancingOptions)
         r == PatchRect(grassDensity, loc.px, loc.py)
     IN IF ~(loc.y < r.yEnd /\ instanceIndex < maxInstances)
          THEN /\ pc' = "patch"
               /\ patches' = IF PatchKept(instanceIndex - loc.patchStart, loc.sampleCount)
                               THEN Append(patches, PatchOf(heightfield, grassDensity, loc, instanceIndex))
                               ELSE patches
               /\ loc' = IF loc.px = 15 THEN [loc EXCEPT !.px = 0, !.py = loc.py + 1]
                         ELSE [loc EXCEPT !.px = loc.px + 1]
          ELSE IF ~(loc.x < r.xEnd /\ instanceIndex < maxInstances)
          THEN /\ pc' = "texel"
               /\ loc' = [loc EXCEPT !.y = loc.y + 1, !.x = r.xStart]
               /\ UNCHANGED patches
          ELSE \E densityValue \in {grassDensity.data[loc.y * grassDensity.width + loc.x]},
                  baseRand \in {PseudoRandom(loc.x, loc.y, 3700)} :
                 \E count \in {TexelCount(densityValue, loc.scaleFactor, baseRand,
                                           maxInstances, instanceIndex)} :
                   IF densityValue <= 0 \/ count <= 0
                     THEN /\ pc' = "texel"
                          /\ loc' = [loc EXCEPT !.x = loc.x + 1,
                                                !.visited = Append(@, <<loc.x, loc.y>>)]
                          /\ UNCHANGED patches
                     ELSE /\ pc' = "instance"
                          /\ loc' = [loc EXCEPT !.i = 0, !.count = count, !.baseRand = baseRand,
                                                !.visited = Append(@, <<loc.x, loc.y>>)]
                          /\ UNCHANGED patches
  /\ UNCHANGED <<heightfield, brushVars, accessVars, windUniforms, buildVars, instancingOptions,
                 instanceIndex, instances, meshResult, prevResult, placeCalls, appVars>>

\* one test of the candidate loop condition and, when it holds, one instance written
InstanceLoop ==
  /\ pc = "instance"
  /\ IF loc.i < loc.count /\ instanceIndex < MaxInstancesOf(instancingOptions)
       THEN \E stiffness \in RandomValues :
              \E inst \in {InstanceAt(heightfield, grassDensity, instancingOptions.heightScale,
                                       loc.x, loc.y, loc.i, loc.baseRand, stiffness)} :
                 /\ instances' = Append(instances, inst)
                 /\ loc' = [loc EXCEPT !.sumX = loc.sumX + inst.position[1],
                                       !.sumY = loc.sumY + inst.position[2],
                                       !.sumZ = loc.sumZ + inst.position[3],
                                       !.sampleCount = loc.sampleCount + 1,
                                       !.i = loc.i + 1]
                 /\ instanceIndex' = instanceIndex + 1
                 /\ pc' = "instance"
       ELSE /\ pc' = "texel"
            /\ loc' = [loc EXCEPT !.x = loc.x + 1]
            /\ UNCHANGED <<instances, instanceIndex, appVars>>
  /\ UNCHANGED <<heightfield, brushVars, accessVars, windUniforms, buildVars, instancingOptions,
                 patches, meshResult, prevResult, placeCalls, appVars>>

\* lines 725-737: mesh.count = instanceIndex, the mesh and the LOD context are returned
PlaceReturn ==
  /\ pc = "finish"
  /\ pc' = "idle"
  /\ meshResult' = [count |-> instanceIndex, instances |-> instances, patches |-> patches,
                    maxInstances |-> MaxInstancesOf(instancingOptions)]
  /\ prevResult' = meshResult
  /\ placeCalls' = placeCalls + 1
  /\ UNCHANGED <<heightfield, brushVars, accessVars, windUniforms, buildVars, instancingOptions,
                 loc, instanceIndex, instances, patches, appVars>>

\* the first call
PlaceFirst == placeCalls = 0 /\ PlaceEnter

\* one call of createGrassInstancedMesh, on any of the inputs
NextPlace == PlaceFirst \/ PatchLoop \/ TexelLoop \/ InstanceLoop \/ PlaceReturn

SpecPlace == InitPlace /\ [][NextPlace]_vars

\* the call repeated on the same inputs, as rebuildGrassMesh does
NextRepeat == PlaceEnter \/ PatchLoop \/ TexelLoop \/ InstanceLoop \/ PlaceReturn

SpecRepeat == InitRepeat /\ [][NextRepeat]_vars

----------------------------------------------------------------------------
(* The pipeline of refreshGrassDensity: the density map is built from the heightfield,
   then createGrassInstancedMesh is run on the heightfield and that map; each call runs
   to its end before the next one starts *)

PipelineParamSets ==
  [minHeight : {-1000}, maxHeight : {4000}, maxSlope : {350, 2000},
   resolution : {<< >>, <<2>>}]

InitPipeline ==
  /\ heightfield \in {NewHeightfield(3, 2, o.useSimpleNoise, o.noiseAmplitude, o.noiseFrequency) :
                        o \in HeightfieldOptions}
  /\ brushCalls = 0
  /\ lastBrush = NoCall
  /\ preBrush = heightfield.data
  /\ brushOutcome = "none"
  /\ lastAccess = NoAccess
  /\ accessCalls = 0
  /\ AppIdle
  /\ windUniforms = [uTime |-> 0]
  /\ densityParams \in PipelineParamSets
  /\ grassDensity = NoDensity
  /\ prevDensity = NoDensity
  /\ buildCalls = 0
  /\ buildTimes = <<0, 0>>
  /\ instancingOptions \in [heightScale : {2500}, maxInstances : {<<1>>, <<2>>}]
  /\ pc = "idle"
  /\ loc = NoLocals
  /\ instanceIndex = 0
  /\ instances = << >>
  /\ patches = << >>
  /\ meshResult = NoResult
  /\ prevResult = NoResult
  /\ placeCalls = 0

\* createGrassDensityMap, called while no placement is running
PipelineBuild == pc = "idle" /\ CreateGrassDensityMap

\* rebuildGrassMesh: nothing is placed before a density map exists
PipelinePlace == grassDensity # NoDensity /\ PlaceEnter

NextPipeline ==
  PipelineBuild \/ PipelinePlace \/ PatchLoop \/ TexelLoop \/ InstanceLoop \/ PlaceReturn

SpecPipeline == InitPipeline /\ [][NextPipeline]_vars

----------------------------------------------------------------------------
(* The application loop of main.ts: UI changes, picks on the terrain, mouseup, blur and the
   Control key, each handled to its end before the next.  A createGrassInstancedMesh call
   is one step here, its result named by its allocation number and by the arguments it
   was built from (its inner steps are the placement actions above); what refreshTerrain
   writes belongs to the terrain mesh of the renderer and is left out.  The grid stands
   for the 256x256 one. *)

\* the states the UI controls take: upper height limit, wind strength and grass capacity
\* (the brush mode has no control)
UiStates ==
  [brushRadius : {10000}, brushIntensity : {120}, brushMode : {"raise"},
   heightLow : {-1000}, heightHigh : {4000, 1000}, slopeThreshold : {350},
   windStrength : {250, 500}, maxGrassInstances : {400000, 200000}]

\* an input event of one control: one field differs
OneFieldChanged(a, b) == Cardinality({f \in DOMAIN a : a[f] # b[f]}) = 1

\* uv of the terrain hit by the pointer, in 1/1000
PickUVs == {<<0, 0>>, <<1000, 1000>>}

\* MouseEvent.buttons: none, primary, secondary
PickButtons == {0, 1, 2}

\* the GrassDensityParams refreshGrassDensity passes
RefreshParams(ui, hf) ==
  [minHeight |-> ui.heightLow, maxHeight |-> ui.heightHigh, maxSlope |-> ui.slopeThreshold,
   resolution |-> <<Max(hf.width, hf.height) * 2>>]

\* the GrassInstancingOptions rebuildGrassMesh passes
RebuildOptions(ui) == [heightScale |-> 2500, maxInstances |-> <<ui.maxGrassInstances>>]

\* the mesh a createGrassInstancedMesh call returns, allocated as number id
NewGrassMesh(id, hf, density, options) ==
  [id |-> id, heights |-> hf.data, density |-> density,
   maxInstances |-> MaxInstancesOf(options)]

\* the new mesh is added while the old one stays in the scene, undisposed
RebuildGrassMeshAdding(ui, hf, density, id) ==
  /\ instancingOptions' = RebuildOptions(ui)
  /\ disposed' = disposed
  /\ IF MaxInstancesOf(RebuildOptions(ui)) < 0
       THEN /\ scene' = scene
            /\ grassLodContext' = NoLod
            /\ UNCHANGED grassMesh
       ELSE /\ grassMesh' = NewGrassMesh(id, hf, density, RebuildOptions(ui))
            /\ grassLodContext' = [mesh |-> id, maxInstances |-> MaxInstancesOf(RebuildOptions(ui))]
            /\ scene' = scene \cup {id}
  /\ UNCHANGED <<pc, loc, instanceIndex, instances, patches, meshResult, prevResult, placeCalls>>

\* rebuildGrassMesh(): the old mesh leaves the scene and is disposed, the LOD context is
\* cleared, the new mesh is created and added; a negative capacity makes the creation
\* throw, which ends the handler there
RebuildGrassMesh(ui, hf, density, id) ==
  /\ instancingOptions' = RebuildOptions(ui)
  /\ disposed' = IF grassMesh # NoMesh THEN disposed \cup {grassMesh.id} ELSE disposed
  /\ IF MaxInstancesOf(RebuildOptions(ui)) < 0
       THEN /\ scene' = scene \ {grassMesh.id}
            /\ grassLodContext' = NoLod
            /\ UNCHANGED grassMesh
       ELSE /\ grassMesh' = NewGrassMesh(id, hf, density, RebuildOptions(ui))
            /\ grassLodContext' = [mesh |-> id, maxInstances |-> MaxInstancesOf(RebuildOptions(ui))]
            /\ scene' = (scene \ {grassMesh.id}) \cup {id}
  /\ UNCHANGED <<pc, loc, instanceIndex, instances, patches, meshResult, prevResult, placeCalls>>

\* refreshGrassDensity(): the density map is built anew from the heightfield and the UI
\* state, then rebuildGrassMesh()
RefreshGrassDensity(ui) ==
  \E params \in {RefreshParams(ui, heightfield)} :
    \E call \in {CreateGrassDensityMapCall(heightfield, params)} :
      /\ heightfield' = call.heightfield
      /\ densityParams' = params
      /\ grassDensity' = call.result
      /\ prevDensity' = grassDensity
      /\ buildCalls' = buildCalls + 1
      /\ buildTimes' = <<buildTimes[2], windUniforms.uTime>>
      /\ grassDensityId' = allocated + 1
      /\ RebuildGrassMesh(ui, call.heightfield, call.result, allocated + 2)
      /\ allocated' = allocated + 2

\* the state main.ts leaves when the module has been evaluated: the heightfield is
\* constructed and the first refreshGrassDensity() has run
InitApp ==
  /\ heightfield = NewHeightfield(3, 2, TRUE, 1200, 80)
  /\ brushCalls = 0
  /\ lastBrush = NoCall
  /\ preBrush = heightfield.data
  /\ brushOutcome = "none"
  /\ lastAccess = NoAccess
  /\ accessCalls = 0
  /\ windUniforms = [uTime |-> 0]
  /\ densityParams = RefreshParams(DefaultUiState, heightfield)
  /\ grassDensity = CreateGrassDensityMapOf(heightfield, densityParams)
  /\ prevDensity = NoDensity
  /\ buildCalls = 1
  /\ buildTimes = <<0, 0>>
  /\ instancingOptions = RebuildOptions(DefaultUiState)
  /\ pc = "idle"
  /\ loc = NoLocals
  /\ instanceIndex = 0
  /\ instances = << >>
  /\ patches = << >>
  /\ meshResult = NoResult
  /\ prevResult = NoResult
  /\ placeCalls = 0
  /\ uiState = DefaultUiState
  /\ ctrlActive = FALSE
  /\ isSculpting = FALSE
  /\ grassUpdatePending = FALSE
  /\ windPaused = FALSE
  /\ grassDensityId = 1
  /\ grassMesh = NewGrassMesh(2, heightfield, grassDensity, instancingOptions)
  /\ grassLodContext = [mesh |-> 2, maxInstances |-> MaxInstancesOf(instancingOptions)]
  /\ scene = {2}
  /\ disposed = {}
  /\ allocated = 2
  /\ lastEvent = "init"
  /\ appEvents = 0

\* the listener given to ui.subscribe: a control changed one field of the UI state
UiChange ==
  /\ appEvents < MaxAppEvents
  /\ \E next \in UiStates :
       /\ OneFieldChanged(uiState, next)
       /\ uiState' = next
       /\ RefreshGrassDensity(next)
  /\ lastEvent' = "ui"
  /\ appEvents' = appEvents + 1
  /\ UNCHANGED <<brushVars, accessVars, windUniforms, ctrlActive, isSculpting,
                 grassUpdatePending, windPaused>>

\* the brush mode of a pick: smooth from the UI, else by the button
PickMode(ui, buttons) ==
  IF ui.brushMode = "smooth" THEN "smooth"
  ELSE IF buttons = 2 THEN "lower" ELSE "raise"

\* the pick leaves the rebuild of the grass to the end of the stroke
PendingAfterPickCleared == FALSE

\* grassUpdatePending as the pick handler sets it after applyBrush
PendingAfterPick == TRUE

\* the onPick callback given to setupInput
Pick ==
  \E uv \in PickUVs, buttons \in PickButtons, ctrlKey \in BOOLEAN :
    IF (~ctrlKey /\ ~ctrlActive) \/ buttons = 0
      THEN /\ lastEvent' = "hover"
           /\ UNCHANGED <<heightfield, brushVars, accessVars, windUniforms, buildVars, placeVars,
                          uiState, ctrlActive, isSculpting, grassUpdatePending, windPaused,
                          grassDensityId, grassMesh, grassLodContext, scene, disposed,
                          allocated, appEvents>>
      ELSE /\ appEvents < MaxAppEvents
           /\ \E xIndex \in {Clamp(Floor(uv[1] * (heightfield.width - 1)), 0, heightfield.width - 1)},
                 yIndex \in {Clamp(Floor((1000 - uv[2]) * (heightfield.height - 1)), 0,
                                   heightfield.height - 1)} :
                ApplyBrushWith(<<xIndex * 1000, yIndex * 1000>>, uiState.brushRadius,
                               uiState.brushIntensity, PickMode(uiState, buttons))
           /\ isSculpting' = TRUE
           /\ windPaused' = (IF isSculpting THEN windPaused ELSE TRUE)
           /\ grassUpdatePending' = PendingAfterPick
           /\ lastEvent' = "pick"
           /\ appEvents' = appEvents + 1
           /\ UNCHANGED <<accessVars, windUniforms, buildVars, placeVars, uiState, ctrlActive,
                          grassDensityId, grassMesh, grassLodContext, scene, disposed, allocated>>

\* the stroke is ended without the rebuild it owes
EndSculptingNoRebuild ==
  IF ~isSculpting
    THEN UNCHANGED <<heightfield, buildVars, placeVars, isSculpting, grassUpdatePending,
                     windPaused, grassDensityId, grassMesh, grassLodContext, scene, disposed,
                     allocated>>
    ELSE /\ isSculpting' = FALSE
         /\ windPaused' = FALSE
         /\ grassUpdatePending' = FALSE
         /\ UNCHANGED <<heightfield, buildVars, placeVars, grassDensityId, grassMesh,
                        grassLodContext, scene, disposed, allocated>>

\* endSculpting(): the rebuild owed by the stroke, if any, is done
EndSculpting ==
  IF ~isSculpting
    THEN UNCHANGED <<heightfield, buildVars, placeVars, isSculpting, grassUpdatePending,
                     windPaused, grassDensityId, grassMesh, grassLodContext, scene, disposed,
                     allocated>>
    ELSE /\ isSculpting' = FALSE
         /\ windPaused' = FALSE
         /\ grassUpdatePending' = FALSE
         /\ IF grassUpdatePending
              THEN RefreshGrassDensity(uiState)
              ELSE UNCHANGED <<heightfield, buildVars, placeVars, grassDensityId, grassMesh,
                               grassLodContext, scene, disposed, allocated>>

\* window mouseup
MouseUp ==
  /\ EndSculpting
  /\ lastEvent' = "mouseup"
  /\ UNCHANGED <<brushVars, accessVars, windUniforms, uiState, ctrlActive, appEvents>>

\* window blur: both listeners
Blur ==
  /\ ctrlActive' = FALSE
  /\ EndSculpting
  /\ lastEvent' = "blur"
  /\ UNCHANGED <<brushVars, accessVars, windUniforms, uiState, appEvents>>

\* window keydown / keyup of the Control key
KeyDown ==
  /\ ctrlActive' = TRUE
  /\ lastEvent' = "keydown"
  /\ UNCHANGED <<heightfield, brushVars, accessVars, windUniforms, buildVars, placeVars,
                 uiState, isSculpting, grassUpdatePending, windPaused, grassDensityId,
                 grassMesh, grassLodContext, scene, disposed, allocated, appEvents>>

KeyUp ==
  /\ ctrlActive' = FALSE
  /\ lastEvent' = "keyup"
  /\ UNCHANGED <<heightfield, brushVars, accessVars, windUniforms, buildVars, placeVars,
                 uiState, isSculpting, grassUpdatePending, windPaused, grassDensityId,
                 grassMesh, grassLodContext, scene, disposed, allocated, appEvents>>

NextApp == UiChange \/ Pick \/ MouseUp \/ Blur \/ KeyDown \/ KeyUp

SpecApp == InitApp /\ [][NextApp]_vars

----------------------------------------------------------------------------
(* Claims about the pipeline (SpecPipeline) *)

\* C16: createGrassDensityMap leaves the heightfield buffer as it found it, and no step
\* of createGrassInstancedMesh, from its entry to its return, changes the heightfield
\* buffer or the density map buffer.
C16_NoInputMutation ==
  [][/\ buildCalls' # buildCalls => heightfield' = heightfield
     /\ (pc # "idle" \/ pc' # "idle") =>
          (heightfield' = heightfield /\ grassDensity' = grassDensity)]_vars

\* C16 witness: on a terrain with relief a map with grass was built at the size of the
\* heightfield and a placement run on it returned with instances written
C16_Witness ==
  /\ buildCalls >= 1
  /\ placeCalls >= 1
  /\ meshResult.count >= 1
  /\ grassDensity.width = heightfield.width /\ grassDensity.height = heightfield.height
  /\ \E j, k \in DOMAIN heightfield.data : heightfield.data[j] # heightfield.data[k]

----------------------------------------------------------------------------
(* Claims about applyBrush (SpecBrush) *)

Texels(hf) == (0 .. (hf.width - 1)) \X (0 .. (hf.height - 1))

\* squared distance of texel t to the centre of the last brush, in 1/1000000
BrushDist2(t) ==
  (t[1] * 1000 - lastBrush.centerX) * (t[1] * 1000 - lastBrush.centerX)
    + (t[2] * 1000 - lastBrush.centerY) * (t[2] * 1000 - lastBrush.centerY)

LastConfig ==
  [radius |-> lastBrush.radius, intensity |-> lastBrush.intensity, mode |-> lastBrush.mode]

Reverse(seq) == [k \in 1 .. Len(seq) |-> seq[Len(seq) + 1 - k]]

\* the last applyBrush call, redone from the grid it was given, visiting the box backwards
LastBrushReversed ==
  LET hf == [heightfield EXCEPT !.data = preBrush]
      box == BrushBox(hf, lastBrush.centerX, lastBrush.centerY, lastBrush.radius)
  IN BrushLoop(hf, preBrush, Reverse(BoxTexels(box[1], box[2], box[3], box[4])), 1,
               lastBrush.centerX, lastBrush.centerY, LastConfig)

ChangedTexels ==
  {t \in Texels(heightfield) : GetHeight(heightfield, t[1], t[2]) # preBrush[Index(heightfield, t[1], t[2])]}

\* C7: a smooth applyBrush leaves the same grid whether the box is visited row-major
\* (as the code does) or in reverse order.
C7_SmoothOrderIndependent ==
  lastBrush.mode = "smooth" => heightfield = LastBrushReversed

\* C7 witness: a smooth call that changed at least two texels with different neighbourhoods
C7_Witness ==
  /\ lastBrush.mode = "smooth"
  /\ Cardinality(ChangedTexels) >= 2

\* C8: after applyBrush in any mode, every texel farther than radius from the centre
\* holds the height it had before the call.
C8_OutsideRadiusUnchanged ==
  lastBrush.mode \in BrushModes =>
    \A t \in Texels(heightfield) :
      BrushDist2(t) > lastBrush.radius * lastBrush.radius =>
        GetHeight(heightfield, t[1], t[2]) = preBrush[Index(heightfield, t[1], t[2])]

\* C8 witness: a call that changed a texel while a texel of its clipped bounding box
\* lies farther than radius from the centre
C8_Witness ==
  /\ lastBrush.mode \in BrushModes
  /\ ChangedTexels # {}
  /\ LET box == BrushBox(heightfield, lastBrush.centerX, lastBrush.centerY, lastBrush.radius)
     IN \E t \in Texels(heightfield) :
          /\ box[1] <= t[1] /\ t[1] <= box[2] /\ box[3] <= t[2] /\ t[2] <= box[4]
          /\ BrushDist2(t) > lastBrush.radius * lastBrush.radius

\* the all-zero 4x4 scenario: centre (1,1), radius 1, intensity 1, raise
C9_Scenario ==
  /\ heightfield.width = 4 /\ heightfield.height = 4
  /\ \A k \in DOMAIN preBrush : preBrush[k] = 0
  /\ lastBrush = [centerX |-> 1000, centerY |-> 1000, radius |-> 1000,
                  intensity |-> 1000, mode |-> "raise"]

\* C9: raise (lower) changes each texel within the radius by +(-) intensity*falloff,
\* falloff = max(0, 1 - dist/radius): full intensity at the centre, nothing at
\* dist = radius; in the 4x4 scenario height(1,1) = 1 and height(0,1) = 0.
C9_RaiseLowerDelta ==
  /\ lastBrush.mode \in {"raise", "lower"} =>
       \A t \in Texels(heightfield) :
         LET d2 == BrushDist2(t)
             r == lastBrush.radius
             sign == IF lastBrush.mode = "raise" THEN 1 ELSE -1
             change == GetHeight(heightfield, t[1], t[2]) - preBrush[Index(heightfield, t[1], t[2])]
         IN /\ d2 <= r * r =>
                 change = sign * ((lastBrush.intensity
                                     * Max(0, 1000 - (Sqrt(d2) * 1000) \div r)) \div 1000)
            /\ d2 = 0 => change = sign * lastBrush.intensity
            /\ d2 = r * r => change = 0
  /\ C9_Scenario =>
       /\ GetHeight(heightfield, 1, 1) = 1000
       /\ GetHeight(heightfield, 0, 1) = 0

\* C9 witness: the scenario call has been made and raised the centre texel; a texel at
\* dist = radius lies in the grid
C9_Witness ==
  /\ C9_Scenario
  /\ GetHeight(heightfield, 1, 1) # 0
  /\ \E t \in Texels(heightfield) : BrushDist2(t) = lastBrush.radius * lastBrush.radius

\* the texels of the 3x3 neighbourhood of t that lie inside the grid
Neighbourhood(hf, t) ==
  {n \in Texels(hf) : Abs(n[1] - t[1]) <= 1 /\ Abs(n[2] - t[2]) <= 1}

RECURSIVE SumOfHeights(_, _, _)
\* the sum of the heights data holds at the texels of cells
SumOfHeights(data, width, cells) ==
  IF cells = {} THEN 0
  ELSE LET n == CHOOSE c \in cells : TRUE
       IN data[n[2] * width + n[1]] + SumOfHeights(data, width, cells \ {n})

\* on how many sides texel t touches the border of the grid
BorderSides(hf, t) ==
  (IF t[1] = 0 \/ t[1] = hf.width - 1 THEN 1 ELSE 0)
    + (IF t[2] = 0 \/ t[2] = hf.height - 1 THEN 1 ELSE 0)

\* C23: after a smooth applyBrush every texel within the radius holds
\* old + (avg - old)*falloff, old and avg read from the grid as it was before the call,
\* avg being the sum of the 3x3 neighbours inside the grid divided by their number; on a
\* grid of at least two rows and two columns that number is 4 at a corner, 6 on an edge
\* and 9 in the interior.
C23_SmoothLerp ==
  lastBrush.mode = "smooth" =>
    \A t \in Texels(heightfield) :
      LET d2 == BrushDist2(t)
          r == lastBrush.radius
          cells == Neighbourhood(heightfield, t)
          old == preBrush[t[2] * heightfield.width + t[1]]
          avg == SumOfHeights(preBrush, heightfield.width, cells) \div Cardinality(cells)
          falloff == Max(0, 1000 - (Sqrt(d2) * 1000) \div r)
      IN /\ d2 <= r * r =>
              GetHeight(heightfield, t[1], t[2]) = old + ((avg - old) * falloff) \div 1000
         /\ (heightfield.width >= 2 /\ heightfield.height >= 2) =>
              Cardinality(cells) = (CASE BorderSides(heightfield, t) = 2 -> 4
                                      [] BorderSides(heightfield, t) = 1 -> 6
                                      [] OTHER -> 9)

\* C23 witness: a smooth call changed a corner texel, an edge texel and an interior texel
\* of a grid that was not flat
C23_Witness ==
  /\ lastBrush.mode = "smooth"
  /\ heightfield.width >= 3 /\ heightfield.height >= 3
  /\ \A sides \in 0 .. 2 : \E t \in ChangedTexels : BorderSides(heightfield, t) = sides

\* the bounding box of the last brush, clipped to the grid, holds no texel
LastBoxEmpty ==
  \/ Ceil(lastBrush.centerX + lastBrush.radius) < 0
  \/ Floor(lastBrush.centerX - lastBrush.radius) > heightfield.width - 1
  \/ Ceil(lastBrush.centerY + lastBrush.radius) < 0
  \/ Floor(lastBrush.centerY - lastBrush.radius) > heightfield.height - 1

\* C24: an applyBrush call whose clipped bounding box is empty returns and leaves every
\* texel as it was, in every mode.
C24_OutsideGridNoOp ==
  (lastBrush.mode \in BrushModes /\ lastBrush.radius > 0 /\ LastBoxEmpty) =>
    /\ brushOutcome = "returned"
    /\ heightfield.data = preBrush

\* C24 witness: a smooth call away from a grid that is not flat
C24_Witness ==
  /\ lastBrush.mode = "smooth"
  /\ LastBoxEmpty
  /\ \E a, b \in DOMAIN heightfield.data : heightfield.data[a] # heightfield.data[b]

\* C14 (as claimed): applyBrush called with a radius of 0 or less fails fast with an
\* error at the call boundary and leaves every texel of the grid unchanged.
C14_NonPositiveRadiusFailsFast ==
  (lastBrush.mode \in BrushModes /\ lastBrush.radius <= 0) =>
    /\ brushOutcome = "threw"
    /\ heightfield.data = preBrush

----------------------------------------------------------------------------
(* Claims about the Heightfield accessors (SpecAccess) *)

InRange(hf, x, y) == 0 <= x /\ x < hf.width /\ 0 <= y /\ y < hf.height

\* C15 (as claimed): getHeight and setHeight called with an index outside
\* 0 <= x < W, 0 <= y < H raise an explicit error: the read returns no value and the
\* write changes no texel of the grid.
C15_OutOfRangeRaises ==
  (lastAccess.op # "none" /\ ~InRange(heightfield, lastAccess.x, lastAccess.y)) =>
    /\ lastAccess.outcome = "threw"
    /\ lastAccess.result = << >>
    /\ heightfield.data = lastAccess.before

\* what the accessors do out of range: a read with the index inside the buffer returns
\* the height of another texel
OutOfRangeReadAliases ==
  /\ lastAccess.op = "getHeight"
  /\ ~InRange(heightfield, lastAccess.x, lastAccess.y)
  /\ lastAccess.result # << >>

\* what the accessors do out of range: a write with the index inside the buffer lands on
\* another texel
OutOfRangeWriteLands ==
  /\ lastAccess.op = "setHeight"
  /\ ~InRange(heightfield, lastAccess.x, lastAccess.y)
  /\ heightfield.data # lastAccess.before

\* C28: every value the build writes to the density field is exactly 0 or at least
\* minBase = 0.35; no texel holds a density strictly between 0 and 0.35.
C28_ZeroOrAtLeastMinBase ==
  grassDensity # NoDensity =>
    \A k \in DOMAIN grassDensity.data :
      grassDensity.data[k] = 0 \/ grassDensity.data[k] >= 350

\* C28 witness: a map was built that has a texel without grass, a texel whose mask is only
\* partial (density below 0.5) and a texel above that
C28_Witness ==
  /\ grassDensity # NoDensity
  /\ \E k \in DOMAIN grassDensity.data : grassDensity.data[k] = 0
  /\ \E k \in DOMAIN grassDensity.data :
       grassDensity.data[k] >= 350 /\ grassDensity.data[k] < 500
  /\ \E k \in DOMAIN grassDensity.data : grassDensity.data[k] >= 500

----------------------------------------------------------------------------
(* Claims about the grid accesses of the sampler, the brush, the build and the placement
   (SpecIndex) *)

\* C27: every heightfield access made by applyBrush, by sampleHeight (for u, v inside and
\* outside [0, 1]), by the density build and by the placement uses 0 <= x < W and
\* 0 <= y < H, and every density access of the placement lies in the density grid.
C27_AccessesInRange ==
  lastAccess.op \in {"sampleHeight", "applyBrush", "build", "place"} =>
    /\ \A c \in lastAccess.cells :
         0 <= c[1] /\ c[1] < heightfield.width /\ 0 <= c[2] /\ c[2] < heightfield.height
    /\ \A c \in lastAccess.densityCells :
         0 <= c[1] /\ c[1] < grassDensity.width /\ 0 <= c[2] /\ c[2] < grassDensity.height

\* C27 witness: sampleHeight was called with u above 1 and v below 0 on a grid of several
\* columns and read the last column
C27_Witness ==
  /\ lastAccess.op = "sampleHeight"
  /\ lastAccess.u > 1000 /\ lastAccess.v < 0
  /\ heightfield.width >= 2
  /\ \E c \in lastAccess.cells : c[1] = heightfield.width - 1

----------------------------------------------------------------------------
(* Claims about createGrassDensityMap (SpecBuild) *)

DensityTexels == DOMAIN grassDensity.data

\* the heightfield with every height raised by c
ShiftHeights(hf, c) == [hf EXCEPT !.data = [k \in DOMAIN hf.data |-> hf.data[k] + c]]

C5_DensityBounds ==
  \A k \in DensityTexels : 0 <= grassDensity.data[k] /\ grassDensity.data[k] <= 1000

\* C5 witness: a returned map with a texel held at 1 by the final clamp (its noise term
\* alone exceeds 1) next to a texel below 1
C5_Witness ==
  /\ buildCalls >= 1
  /\ \E k \in DensityTexels :
       /\ grassDensity.data[k] = 1000
       /\ RawDensity(1000000, TexelU(k % grassDensity.width, grassDensity.width),
                     TexelU(k \div grassDensity.width, grassDensity.height)) > 1000
  /\ \E k \in DensityTexels : grassDensity.data[k] < 1000

\* C10: with minHeight = maxHeight the height mask is 1 for every texel: each density is
\* the one its slope mask and noise alone give, and raising the whole terrain (which
\* keeps every slope) leaves the map unchanged.
C10_ZeroRangeHeightMaskOne ==
  (buildCalls >= 1 /\ densityParams.minHeight = densityParams.maxHeight) =>
    /\ \A k \in DensityTexels :
         LET x == k % grassDensity.width
             y == k \div grassDensity.width
             slope == TexelSlope(heightfield, x, y, grassDensity.width, grassDensity.height)
         IN grassDensity.data[k] =
              DensityValue(1000 * SlopeMask(slope, densityParams.maxSlope),
                           TexelU(x, grassDensity.width), TexelU(y, grassDensity.height))
    /\ grassDensity = CreateGrassDensityMapOf(ShiftHeights(heightfield, 2500), densityParams)

\* C10 witness: a map built with minHeight = maxHeight from a terrain with relief, some
\* of it away from that height, and grass on it
C10_Witness ==
  /\ buildCalls >= 1
  /\ densityParams.minHeight = densityParams.maxHeight
  /\ \E j, k \in DOMAIN heightfield.data :
       /\ heightfield.data[j] # heightfield.data[k]
       /\ heightfield.data[j] # densityParams.minHeight
  /\ \E k \in DensityTexels : grassDensity.data[k] > 0

\* C13 (as claimed): createGrassDensityMap called with a resolution of 0 or less is
\* rejected before any texel is computed: the resolution is not clamped to a valid size
\* and no density map is returned.
C13_NonPositiveResolutionRejected ==
  (/\ buildCalls >= 1
   /\ densityParams.resolution # << >>
   /\ densityParams.resolution[1] <= 0) => grassDensity = NoDensity

\* sampled height of output texel k
TexelHeight(k) ==
  SampleHeight(heightfield, TexelU(k % grassDensity.width, grassDensity.width),
               TexelU(k \div grassDensity.width, grassDensity.height))

\* slope of output texel k
SlopeOfTexel(k) ==
  TexelSlope(heightfield, k % grassDensity.width, k \div grassDensity.width,
             grassDensity.width, grassDensity.height)

\* the height part of C25: a texel at or beyond an edge of [minHeight, maxHeight] holds 0
HeightEdgesGiveZero ==
  (buildCalls >= 1 /\ densityParams.maxHeight > densityParams.minHeight) =>
    \A k \in DensityTexels :
      (TexelHeight(k) <= densityParams.minHeight \/ TexelHeight(k) >= densityParams.maxHeight)
        => grassDensity.data[k] = 0

\* the mask part of C25: the density is 0 exactly when heightMask*slopeMask <= 0
ZeroExactlyWhenMasked ==
  (buildCalls >= 1 /\ densityParams.maxHeight > densityParams.minHeight) =>
    \A k \in DensityTexels :
      (grassDensity.data[k] = 0) <=>
        (HeightMask(TexelHeight(k), densityParams.minHeight, densityParams.maxHeight)
           * SlopeMask(SlopeOfTexel(k), densityParams.maxSlope) <= 0)

\* the slope part of C25: a texel whose slope is at least maxSlope holds 0
SteepGivesZero ==
  (buildCalls >= 1 /\ densityParams.maxHeight > densityParams.minHeight) =>
    \A k \in DensityTexels :
      SlopeOfTexel(k) >= densityParams.maxSlope => grassDensity.data[k] = 0

\* C25 (as claimed): with maxHeight > minHeight the map holds 0 at every texel whose
\* sampled height is at or beyond an edge of [minHeight, maxHeight] and at every texel
\* whose slope is at least maxSlope, and a texel holds 0 exactly when
\* heightMask*slopeMask <= 0.
C25_ZeroDensity == HeightEdgesGiveZero /\ SteepGivesZero /\ ZeroExactlyWhenMasked

\* where the map departs from C25: maxSlope is 0 and a flat texel, whose slope 0 is at
\* least maxSlope, holds grass
FlatUnderZeroMaxSlope ==
  /\ buildCalls >= 1
  /\ densityParams.maxSlope = 0
  /\ \E k \in DensityTexels : SlopeOfTexel(k) = 0 /\ grassDensity.data[k] >= 350

\* the slope part with the floor the code puts under maxSlope: a texel whose slope is at
\* least max(maxSlope, 1e-5) holds 0 (slopes in 1/1000, compared in 1/100000)
SteepGivesZeroFloored ==
  (buildCalls >= 1 /\ densityParams.maxHeight > densityParams.minHeight) =>
    \A k \in DensityTexels :
      SlopeOfTexel(k) * 100 >= Max(densityParams.maxSlope * 100, 1)
        => grassDensity.data[k] = 0

\* C25 (amended): with maxHeight > minHeight the map holds 0 at every texel whose sampled
\* height is at or beyond an edge of [minHeight, maxHeight] and at every texel whose slope
\* is at least max(maxSlope, 1e-5), and a texel holds 0 exactly when
\* heightMask*slopeMask <= 0.
C25_ZeroDensityFloored ==
  HeightEdgesGiveZero /\ SteepGivesZeroFloored /\ ZeroExactlyWhenMasked

\* C25 witness: a map built with maxHeight > minHeight holds a texel bare by its height
\* alone, a texel bare by its slope alone, and a texel with grass
C25_Witness ==
  /\ buildCalls >= 1
  /\ densityParams.maxHeight > densityParams.minHeight
  /\ \E k \in DensityTexels :
       /\ TexelHeight(k) >= densityParams.maxHeight \/ TexelHeight(k) <= densityParams.minHeight
       /\ SlopeOfTexel(k) * 100 < Max(densityParams.maxSlope * 100, 1)
       /\ grassDensity.data[k] = 0
  /\ \E k \in DensityTexels :
       /\ densityParams.minHeight < TexelHeight(k) /\ TexelHeight(k) < densityParams.maxHeight
       /\ SlopeOfTexel(k) * 100 >= Max(densityParams.maxSlope * 100, 1)
       /\ grassDensity.data[k] = 0
  /\ \E k \in DensityTexels : grassDensity.data[k] > 0

----------------------------------------------------------------------------
(* Claims about createGrassInstancedMesh (SpecPlace; SpecRepeat for repeated calls) *)

\* options.maxInstances as the caller gave it
GivenMaxInstances == Nullish(instancingOptions.maxInstances, 50000)

RECURSIVE SumInstanceCounts(_, _)
SumInstanceCounts(ps, k) ==
  IF k > Len(ps) THEN 0 ELSE ps[k].instanceCount + SumInstanceCounts(ps, k + 1)

\* the patches of the 16x16 grid that hold at least one density texel
NonEmptyPatches(density) ==
  {k \in 0 .. (16 * 16 - 1) :
     LET r == PatchRect(density, k % 16, k \div 16)
     IN r.xStart < r.xEnd /\ r.yStart < r.yEnd}

\* C1: for maxInstances >= 0 the running instance index never exceeds maxInstances
\* during placement, and the returned live count is at most maxInstances.
C1_CapacityCeiling ==
  GivenMaxInstances >= 0 =>
    /\ instanceIndex <= GivenMaxInstances
    /\ Len(instances) <= GivenMaxInstances
    /\ placeCalls >= 1 => meshResult.count <= GivenMaxInstances

\* C1 witness: a call returned under capacity pressure (more grass expected than
\* maxInstances allows) with the buffer filled to the ceiling
C1_Witness ==
  /\ placeCalls >= 1
  /\ GivenMaxInstances >= 1
  /\ TotalExpected(grassDensity) > GivenMaxInstances * 1000
  /\ meshResult.count = GivenMaxInstances

\* C2: in the returned result the patch instance counts add up to the live count, and
\* no returned patch is empty.
C2_PatchConsistency ==
  placeCalls >= 1 =>
    /\ SumInstanceCounts(meshResult.patches, 1) = meshResult.count
    /\ \A k \in 1 .. Len(meshResult.patches) : meshResult.patches[k].instanceCount > 0

\* C2 witness: a result with several patches, while some patch of the grid that covers
\* density texels got no instance and was dropped
C2_Witness ==
  /\ placeCalls >= 1
  /\ Len(meshResult.patches) >= 2
  /\ Len(meshResult.patches) < Cardinality(NonEmptyPatches(grassDensity))

\* C3 (as claimed): two calls on the same heightfield, density map and options return
\* the same count, the same patches and the same value in every attribute slot.
C3_PlaceDeterministic ==
  placeCalls >= 2 => meshResult = prevResult

\* C6: every instance placed from texel (x, y) was sampled at a UV inside that texel's
\* own cell [x/Wd, (x+1)/Wd] x [y/Hd, (y+1)/Hd].
C6_InCellContainment ==
  \A k \in 1 .. Len(instances) :
    LET inst == instances[k]
    IN /\ inst.texel[1] * 10000 <= inst.sampleU
       /\ inst.sampleU <= (inst.texel[1] + 1) * 10000
       /\ inst.texel[2] * 10000 <= inst.sampleV
       /\ inst.sampleV <= (inst.texel[2] + 1) * 10000

\* C6 witness: an instance of a texel other than the first, jittered by more than a
\* quarter of a cell away from the texel centre
C6_Witness ==
  \E k \in 1 .. Len(instances) :
    LET inst == instances[k]
    IN /\ inst.texel[1] >= 1
       /\ Abs(inst.sampleU - (inst.texel[1] * 10000 + 5000)) > 2500

\* the density map holds grass in every texel
AllDense == \A k \in DOMAIN grassDensity.data : grassDensity.data[k] = 1000

\* C11: called with maxInstances = 0, createGrassInstancedMesh completes and returns
\* count = 0 and an empty patch list, whatever the density map holds.
C11_ZeroCapacity ==
  GivenMaxInstances = 0 =>
    /\ pc # "threw"
    /\ instances = << >>
    /\ placeCalls >= 1 => (meshResult.count = 0 /\ meshResult.patches = << >>)

\* C11 witness: a call with maxInstances = 0 returned on a map of several texels whose
\* densities are all 1
C11_Witness ==
  /\ placeCalls >= 1
  /\ GivenMaxInstances = 0
  /\ AllDense
  /\ Cardinality(DOMAIN grassDensity.data) >= 2

\* C12 (as claimed): called with any maxInstances <= 0, negative values included,
\* createGrassInstancedMesh raises no error and returns count = 0 and no patches.
C12_NonPositiveCapacityNoError ==
  GivenMaxInstances <= 0 =>
    /\ pc # "threw"
    /\ placeCalls >= 1 => (meshResult.count = 0 /\ Len(meshResult.patches) = 0)

\* the instances written so far that were placed from texel (x, y)
InstancesOfTexel(x, y) ==
  Cardinality({k \in 1 .. Len(instances) : instances[k].texel = <<x, y>>})

\* floor(density * maxPerTexel * scaleFactor) of texel k
ProportionalFloor(k) ==
  LET scaleFactor == ScaleFactor(grassDensity, GivenMaxInstances)
  IN ((grassDensity.data[k] * 6 * scaleFactor[1]) \div scaleFactor[2]) \div 1000

\* C17 (as claimed): under capacity pressure every texel with positive density ends up
\* with floor(density*maxPerTexel*scaleFactor) instances or one more, wherever it falls
\* in the traversal order: the capacity clamp cuts no texel below its share.
C17_ProportionalShare ==
  (/\ pc = "finish"
   /\ GivenMaxInstances >= 0
   /\ TotalExpected(grassDensity) > GivenMaxInstances * 1000) =>
    \A k \in DOMAIN grassDensity.data :
      grassDensity.data[k] > 0 =>
        LET got == InstancesOfTexel(k % grassDensity.width, k \div grassDensity.width)
        IN got = ProportionalFloor(k) \/ got = ProportionalFloor(k) + 1

\* density * maxPerTexel * scaleFactor of texel k, in 1/1000
ScaledExpectedOf(k) ==
  LET scaleFactor == ScaleFactor(grassDensity, GivenMaxInstances)
  IN (grassDensity.data[k] * 6 * scaleFactor[1]) \div scaleFactor[2]

\* floor(s) + (hash(x, y, 0.37) < s - floor(s) ? 1 : 0) of texel (x, y)
StochasticRound(x, y) ==
  LET s == ScaledExpectedOf(y * grassDensity.width + x)
      whole == s \div 1000
  IN whole + (IF PseudoRandom(x, y, 3700) < (s - whole * 1000) * 10 THEN 1 ELSE 0)

\* the instances written for the texels visited before the j-th visit
PlacedBeforeVisit(j) ==
  Cardinality({k \in 1 .. Len(instances) :
                 \E i \in 1 .. (j - 1) : instances[k].texel = loc.visited[i]})

\* C21: when the loops are over, every visited texel with positive density holds
\* min(floor(s) + (hash(x,y,0.37) < s - floor(s) ? 1 : 0), maxInstances - placedSoFar)
\* instances, s being density*maxPerTexel*scaleFactor and placedSoFar the instances
\* written before the texel was visited.
C21_TexelCount ==
  pc = "finish" =>
    \A j \in 1 .. Len(loc.visited) :
      LET x == loc.visited[j][1]
          y == loc.visited[j][2]
      IN grassDensity.data[y * grassDensity.width + x] > 0 =>
           InstancesOfTexel(x, y)
             = Min(StochasticRound(x, y), GivenMaxInstances - PlacedBeforeVisit(j))

\* C21 witness: the loops are over; one visited texel was rounded up by its hash and holds
\* its rounded count, a later one was cut by the capacity below its rounded count
C21_Witness ==
  /\ pc = "finish"
  /\ \E j \in 1 .. Len(loc.visited) :
       LET x == loc.visited[j][1]
           y == loc.visited[j][2]
       IN /\ StochasticRound(x, y) > ScaledExpectedOf(y * grassDensity.width + x) \div 1000
          /\ InstancesOfTexel(x, y) = StochasticRound(x, y)
  /\ \E j \in 1 .. Len(loc.visited) :
       LET x == loc.visited[j][1]
           y == loc.visited[j][2]
       IN /\ InstancesOfTexel(x, y) >= 1
          /\ InstancesOfTexel(x, y) < StochasticRound(x, y)

\* C22 (as claimed): for every instance written, the seeds given to the hash for its
\* attributes (UV jitter U, UV jitter V, yaw, tilt X, tilt Z, scale/variation) are pairwise
\* distinct.
C22_DistinctSeeds ==
  \A k \in 1 .. Len(instances) :
    LET inst == instances[k]
        seeds == AttributeSeeds(inst.candidate,
                                PseudoRandom(inst.texel[1], inst.texel[2], 3700))
    IN \A a, b \in DOMAIN seeds : a # b => seeds[a] # seeds[b]

\* the patches of the 16x16 grid whose rectangle holds texel (x, y)
PatchesHolding(density, x, y) ==
  {k \in 0 .. (16 * 16 - 1) :
     LET r == PatchRect(density, k % 16, k \div 16)
     IN r.xStart <= x /\ x < r.xEnd /\ r.yStart <= y /\ y < r.yEnd}

DensityCells(density) == (0 .. (density.width - 1)) \X (0 .. (density.height - 1))

\* C19: for every density size the rectangles of the 16x16 patch grid partition the
\* density grid: each texel lies in exactly one rectangle; the texel loops enter no texel
\* twice, and a call that never runs out of capacity enters every texel.
C19_PatchGridCovers ==
  /\ (pc = "patch" /\ loc.px = 0 /\ loc.py = 0) =>
       \A t \in DensityCells(grassDensity) :
         Cardinality(PatchesHolding(grassDensity, t[1], t[2])) = 1
  /\ \A j, k \in 1 .. Len(loc.visited) : j # k => loc.visited[j] # loc.visited[k]
  /\ (pc = "finish" /\ instanceIndex < GivenMaxInstances) =>
       {loc.visited[k] : k \in 1 .. Len(loc.visited)} = DensityCells(grassDensity)

\* C19 witness: a call reached its end with capacity left on a map wider than 16 texels
\* whose width is no multiple of 16, the last patch of the row being narrower than the
\* others, with instances placed
C19_Witness ==
  /\ pc = "finish"
  /\ instanceIndex < GivenMaxInstances
  /\ grassDensity.width > 16 /\ grassDensity.width % 16 # 0
  /\ \E k \in 0 .. 15 :
       LET r == PatchRect(grassDensity, k, 0)
           first == PatchRect(grassDensity, 0, 0)
       IN r.xStart < r.xEnd /\ r.xEnd - r.xStart < first.xEnd - first.xStart
  /\ Len(patches) >= 1

\* index (py*16 + px) of the patch whose rectangle holds texel (x, y)
PatchIndexOf(density, x, y) ==
  (y \div CeilDiv(density.height, 16)) * 16 + (x \div CeilDiv(density.width, 16))

\* instance a comes before instance b in the order: patches row-major, texels row-major
\* inside a patch, candidates by index
WrittenBefore(a, b) ==
  LET pa == PatchIndexOf(grassDensity, a.texel[1], a.texel[2])
      pb == PatchIndexOf(grassDensity, b.texel[1], b.texel[2])
  IN \/ pa < pb
     \/ pa = pb /\ a.texel[2] < b.texel[2]
     \/ pa = pb /\ a.texel[2] = b.texel[2] /\ a.texel[1] < b.texel[1]
     \/ pa = pb /\ a.texel = b.texel /\ a.candidate < b.candidate

\* the patch index shared by the instances of range [startInstance, startInstance+count)
\* of a returned patch, -1 when they do not share one
PatchIndexOfRange(ps, j) ==
  LET slots == {k \in 1 .. Len(instances) :
                  ps[j].startInstance < k /\ k <= ps[j].startInstance + ps[j].instanceCount}
      idx == {PatchIndexOf(grassDensity, instances[k].texel[1], instances[k].texel[2]) : k \in slots}
  IN IF Cardinality(idx) = 1 THEN CHOOSE i \in idx : TRUE ELSE -1

\* C20: instances are written in the fixed order (patches row-major, texels row-major in
\* a patch, candidates by index); the returned patches are in row-major patch order and
\* their ranges [startInstance, startInstance+instanceCount) are disjoint, increasing and
\* tile [0, count) with no gap.
C20_FixedOrderTiling ==
  /\ \A k \in 1 .. (Len(instances) - 1) : WrittenBefore(instances[k], instances[k + 1])
  /\ pc = "finish" =>
       /\ (instanceIndex > 0) = (Len(patches) > 0)
       /\ Len(patches) > 0 =>
            /\ patches[1].startInstance = 0
            /\ patches[Len(patches)].startInstance + patches[Len(patches)].instanceCount
                  = instanceIndex
       /\ \A j \in 1 .. Len(patches) : PatchIndexOfRange(patches, j) >= 0
       /\ \A j \in 1 .. (Len(patches) - 1) :
            /\ patches[j].startInstance + patches[j].instanceCount = patches[j + 1].startInstance
            /\ PatchIndexOfRange(patches, j) < PatchIndexOfRange(patches, j + 1)

\* C20 witness: a call reached its end with several patches, one of them holding
\* instances of two texels, and a texel holding two instances
C20_Witness ==
  /\ pc = "finish"
  /\ Len(patches) >= 2
  /\ \E j \in 1 .. Len(instances) - 1 :
       /\ instances[j].texel # instances[j + 1].texel
       /\ PatchIndexOf(grassDensity, instances[j].texel[1], instances[j].texel[2])
            = PatchIndexOf(grassDensity, instances[j + 1].texel[1], instances[j + 1].texel[2])
  /\ \E j \in 1 .. Len(instances) - 1 : instances[j].texel = instances[j + 1].texel

RECURSIVE SumOfPositions(_, _, _)
\* component c of the positions of instances from + 1 .. to, added up
SumOfPositions(from, to, c) ==
  IF from >= to THEN 0 ELSE instances[from + 1].position[c] + SumOfPositions(from + 1, to, c)

\* half the diagonal, in world units of 1/1000, of the texel rectangle of patch k
HalfDiagonal(k) ==
  LET perX == CeilDiv(grassDensity.width, 16)
      perY == CeilDiv(grassDensity.height, 16)
      texelsX == Min(grassDensity.width, ((k % 16) + 1) * perX) - (k % 16) * perX
      texelsY == Min(grassDensity.height, ((k \div 16) + 1) * perY) - (k \div 16) * perY
      worldX == ((texelsX * 1000) \div grassDensity.width) * (heightfield.width - 1)
      worldZ == ((texelsY * 1000) \div grassDensity.height) * (heightfield.height - 1)
  IN Sqrt((worldX * worldX + worldZ * worldZ) \div 4)

\* C26: when the loops are over, the centre of every patch is the mean of the positions of
\* the instances of its own range [startInstance, startInstance+instanceCount), and its
\* radius is half the diagonal of the patch's texel rectangle in world space.
C26_PatchCenterRadius ==
  pc = "finish" =>
    \A j \in 1 .. Len(patches) :
      LET p == patches[j]
      IN /\ \A c \in 1 .. 3 :
              p.center[c] = SumOfPositions(p.startInstance, p.startInstance + p.instanceCount, c)
                              \div p.instanceCount
         /\ p.radius = HalfDiagonal(PatchIndexOfRange(patches, j))

\* C26 witness: the loops are over with several patches; one of them holds instances at
\* different positions, away from the origin on the whole
C26_Witness ==
  /\ pc = "finish"
  /\ Len(patches) >= 2
  /\ \E j \in 1 .. Len(patches) :
       LET p == patches[j]
       IN /\ p.instanceCount >= 2
          /\ instances[p.startInstance + 1].position # instances[p.startInstance + 2].position
          /\ p.center # <<0, 0, 0>>
          /\ p.radius > 0

----------------------------------------------------------------------------
(* Claims about the application loop (SpecApp) *)

\* the density map and the grass mesh are the ones a rebuild from the current heightfield
\* and UI state gives
Fresh ==
  /\ grassDensity = CreateGrassDensityMapOf(heightfield, RefreshParams(uiState, heightfield))
  /\ grassMesh # NoMesh
  /\ grassMesh.heights = heightfield.data
  /\ grassMesh.density = grassDensity
  /\ grassMesh.maxInstances = uiState.maxGrassInstances

\* a step of the UI listener, and the step ending a stroke that changed heights, allocate
\* a new density map and a new mesh
ChangeRebuilds ==
  ((appEvents' # appEvents /\ lastEvent' = "ui") \/ (grassUpdatePending /\ ~grassUpdatePending')) =>
    /\ grassDensityId' > allocated
    /\ grassMesh'.id > allocated

\* a step that replaces the density map or the mesh is a full rebuild: both are newly
\* allocated, the mesh is built from the heightfield, the map and the capacity as they are
\* after the step, and the previous mesh has left the scene and is disposed
RebuildIsFull ==
  (grassDensityId' # grassDensityId \/ grassMesh' # grassMesh \/ grassDensity' # grassDensity) =>
    /\ grassDensityId' > allocated
    /\ grassMesh'.id > allocated
    /\ grassMesh'.id # grassDensityId'
    /\ grassMesh'.heights = heightfield'.data
    /\ grassMesh'.density = grassDensity'
    /\ grassMesh'.maxInstances = uiState'.maxGrassInstances
    /\ grassMesh # NoMesh => (grassMesh.id \notin scene' /\ grassMesh.id \in disposed')

PickDefers ==
  (lastEvent' = "pick" /\ brushCalls' # brushCalls) =>
    /\ grassDensityId' = grassDensityId
    /\ grassMesh' = grassMesh
    /\ isSculpting' /\ grassUpdatePending'

\* C29: brush applications during a stroke defer the grass rebuild and mouseup / blur
\* performs it: after any sequence of pick, UI-change, mouseup and blur events, whenever
\* isSculpting is false the density map and the grass mesh are the ones built from the
\* current heightfield contents and grassUpdatePending is false.
C29_IdleIsFresh ==
  /\ [](~isSculpting => (~grassUpdatePending /\ Fresh))
  /\ [][PickDefers]_vars

\* C29 witness: a stroke changed the heights, a UI change came within the stroke, blur
\* ended the stroke and the grass is the one of the sculpted heightfield
C29_Witness ==
  /\ lastEvent = "blur"
  /\ ~isSculpting /\ ~grassUpdatePending
  /\ brushCalls >= 1
  /\ buildCalls >= 3
  /\ heightfield.data # NewHeightfield(3, 2, TRUE, 1200, 80).data
  /\ grassMesh.heights = heightfield.data

\* a step that replaces the grass mesh leaves the new mesh alone in the scene, the previous
\* one out of it and disposed, and the LOD context on the new mesh
MeshReplaced ==
  grassMesh' # grassMesh =>
    /\ grassMesh'.id > allocated
    /\ grassMesh.id \notin scene'
    /\ grassMesh.id \in disposed'
    /\ grassMesh'.id \notin disposed'
    /\ scene' = {grassMesh'.id}
    /\ grassLodContext'.mesh = grassMesh'.id

\* C30: after any sequence of rebuilds the scene holds exactly one grass mesh, the one of
\* the latest rebuild; every earlier mesh is out of the scene and disposed, and
\* grassLodContext belongs to the mesh in the scene.
C30_OneMeshInScene ==
  /\ [](/\ grassMesh # NoMesh
        /\ scene = {grassMesh.id}
        /\ grassMesh.id = allocated
        /\ grassMesh.id \notin disposed
        /\ disposed \cap scene = {}
        /\ Cardinality(disposed) = buildCalls - 1
        /\ grassLodContext.mesh = grassMesh.id)
  /\ [][MeshReplaced]_vars

\* C30 witness: two rebuilds after the first one; two meshes are disposed and the third is
\* in the scene
C30_Witness ==
  /\ buildCalls = 3
  /\ Cardinality(disposed) = 2
  /\ scene = {grassMesh.id}
  /\ grassMesh.id = 6
  /\ grassLodContext.mesh = 6

====
